---- MODULE Spec2Model ----
(***************************************************************************)
(* A model of script/struct_gen.py: the generator that turns the textual   *)
(* dump of a managed runtime's types (dump.cs) into native structure       *)
(* declarations (il2cpp.h).                                                *)
(*                                                                         *)
(* Text is modelled as TLA+ strings, character by character: Len, \o and   *)
(* SubSeq act on strings, and the Python string methods the script uses    *)
(* (strip, rstrip, replace, split, startswith, endswith, count) are the    *)
(* operators of the first section.  A TypeInfo object is identified by its *)
(* position in type_infos (Python compares them with "is"); None is 0 for  *)
(* an object reference and NoneStr for an optional string.                 *)
(***************************************************************************)
EXTENDS Integers, Sequences, FiniteSets, TLC

(***************************************************************************)
(* Python string methods                                                   *)
(***************************************************************************)

\* s[a-1:b] of Python: the characters at positions a..b, the positions
\* outside the string left out as Python's slices leave them out.
Slice(s, a, b) ==
    LET lo == IF a < 1 THEN 1 ELSE a
        hi == IF b > Len(s) THEN Len(s) ELSE b
    IN  IF lo > hi THEN "" ELSE SubSeq(s, lo, hi)

\* The i-th character, as a one-character string ("" outside the string).
Ch(s, i) == Slice(s, i, i)

\* The characters str.strip(), str.rstrip(), str.split(None) and \s take as
\* white space, among the characters a line of the dump can hold.
Whitespace == {" ", "\t"}

Digits == {"0", "1", "2", "3", "4", "5", "6", "7", "8", "9"}

Letters ==
    {"a", "b", "c", "d", "e", "f", "g", "h", "i", "j", "k", "l", "m",
     "n", "o", "p", "q", "r", "s", "t", "u", "v", "w", "x", "y", "z",
     "A", "B", "C", "D", "E", "F", "G", "H", "I", "J", "K", "L", "M",
     "N", "O", "P", "Q", "R", "S", "T", "U", "V", "W", "X", "Y", "Z"}

\* The class \w of the regular expressions.
WordChars == Letters \cup Digits \cup {"_"}

\* The backtick of generic arities (List`1).  A TLA+ string cannot hold a
\* backtick, so this character stands for it; it is no character of the
\* model's input otherwise.
Backtick == "~"

\* Optional strings: Python's None.  Every optional string of the script is
\* tested by truth value only, and the empty string is as false as None.
NoneStr == ""

SetMin(S) == CHOOSE x \in S : \A y \in S : x <= y

SetMax(S) == CHOOSE x \in S : \A y \in S : y <= x

\* s[a-1:] of Python.
From(s, a) == Slice(s, a, Len(s))

StartsWith(s, p) == Len(p) <= Len(s) /\ Slice(s, 1, Len(p)) = p

EndsWith(s, p) == Len(p) <= Len(s) /\ Slice(s, Len(s) - Len(p) + 1, Len(s)) = p

\* str.strip(): leading and trailing white space removed.
Strip(s) ==
    LET keep == {i \in 1..Len(s) : Ch(s, i) \notin Whitespace}
    IN  IF keep = {} THEN "" ELSE Slice(s, SetMin(keep), SetMax(keep))

\* str.rstrip(): trailing white space removed.
RStrip(s) ==
    LET keep == {i \in 1..Len(s) : Ch(s, i) \notin Whitespace}
    IN  IF keep = {} THEN "" ELSE Slice(s, 1, SetMax(keep))

\* str.rstrip(c): every trailing occurrence of the character c removed.
RStripChar(s, c) ==
    LET keep == {i \in 1..Len(s) : Ch(s, i) # c}
    IN  IF keep = {} THEN "" ELSE Slice(s, 1, SetMax(keep))

\* str.find(sub) + 1: the first position sub occurs at, 0 when it does not.
Find(s, sub) ==
    LET at == {i \in 1..(Len(s) - Len(sub) + 1) : Slice(s, i, i + Len(sub) - 1) = sub}
    IN  IF at = {} THEN 0 ELSE SetMin(at)

\* "sub in s".
Contains(s, sub) == Find(s, sub) # 0

\* str.count(c) for a single character c.
Count(s, c) == Cardinality({i \in 1..Len(s) : Ch(s, i) = c})

\* str.replace(old, new): the occurrences of old, left to right and not
\* overlapping, replaced by new.
RECURSIVE Replace(_, _, _)
Replace(s, old, new) ==
    LET at == Find(s, old)
    IN  IF at = 0
        THEN s
        ELSE Slice(s, 1, at - 1) \o new \o Replace(From(s, at + Len(old)), old, new)

\* str.split(sep, 1)[0]: what precedes the first sep (all of s without one).
BeforeFirst(s, sep) ==
    LET at == Find(s, sep)
    IN  IF at = 0 THEN s ELSE Slice(s, 1, at - 1)

\* str.split(sep): the pieces between the occurrences of sep, empty ones kept.
RECURSIVE Split(_, _)
Split(s, sep) ==
    LET at == Find(s, sep)
    IN  IF at = 0
        THEN <<s>>
        ELSE <<Slice(s, 1, at - 1)>> \o Split(From(s, at + Len(sep)), sep)

\* The first position at or after i whose character is outside chars
\* (Len(s) + 1 when there is none): where a greedy character class stops.
SkipWhile(s, i, chars) ==
    LET stop == {j \in i..Len(s) : Ch(s, j) \notin chars}
    IN  IF stop = {} THEN Len(s) + 1 ELSE SetMin(stop)

\* The first position at or after i whose character is in chars (Len(s) + 1
\* when there is none).
SkipUntil(s, i, chars) ==
    LET stop == {j \in i..Len(s) : Ch(s, j) \in chars}
    IN  IF stop = {} THEN Len(s) + 1 ELSE SetMin(stop)

\* The pieces of str.split(None, 1) for a string body that starts with its
\* first word, which ends before position gap.
WordAndRest(body, gap, rest) ==
    IF body = "" THEN <<>>
    ELSE IF rest > Len(body) THEN <<Slice(body, 1, gap - 1)>>
    ELSE <<Slice(body, 1, gap - 1), From(body, rest)>>

WordSplit(body, gap) == WordAndRest(body, gap, SkipWhile(body, gap, Whitespace))

\* str.split(None, 1): no piece for a blank string; otherwise the first word
\* and, when something follows the white space after it, the rest.
SplitFirstWord(s) ==
    WordSplit(From(s, SkipWhile(s, 1, Whitespace)),
              SkipUntil(From(s, SkipWhile(s, 1, Whitespace)), 1, Whitespace))

\* re.sub(r"__+", "_", s): every run of underscores becomes one underscore.
CollapseUnderscores(s) ==
    LET keep == {i \in 1..Len(s) : ~(Ch(s, i) = "_" /\ i > 1 /\ Ch(s, i - 1) = "_")}
        RECURSIVE Build(_)
        Build(i) ==
            IF i > Len(s) THEN ""
            ELSE (IF i \in keep THEN Ch(s, i) ELSE "") \o Build(i + 1)
    IN  Build(1)

\* "sep".join(parts).
RECURSIVE Join(_, _)
Join(parts, sep) ==
    IF Len(parts) = 0 THEN ""
    ELSE IF Len(parts) = 1 THEN parts[1]
    ELSE parts[1] \o sep \o Join(Tail(parts), sep)

(***************************************************************************)
(* Tables and patterns                                                     *)
(***************************************************************************)

MODIFIERS ==
    {"public", "private", "protected", "internal", "static", "readonly",
     "volatile", "unsafe", "const", "new", "sealed", "abstract", "extern",
     "partial", "fixed"}

PRIMITIVE_MAP ==
    ("bool" :> "bool") @@ ("Boolean" :> "bool") @@ ("System.Boolean" :> "bool") @@
    ("byte" :> "uint8_t") @@ ("Byte" :> "uint8_t") @@ ("System.Byte" :> "uint8_t") @@
    ("sbyte" :> "int8_t") @@ ("SByte" :> "int8_t") @@ ("System.SByte" :> "int8_t") @@
    ("short" :> "int16_t") @@ ("Int16" :> "int16_t") @@ ("System.Int16" :> "int16_t") @@
    ("ushort" :> "uint16_t") @@ ("UInt16" :> "uint16_t") @@ ("System.UInt16" :> "uint16_t") @@
    ("char" :> "uint16_t") @@ ("Char" :> "uint16_t") @@ ("System.Char" :> "uint16_t") @@
    ("int" :> "int32_t") @@ ("Int32" :> "int32_t") @@ ("System.Int32" :> "int32_t") @@
    ("uint" :> "uint32_t") @@ ("UInt32" :> "uint32_t") @@ ("System.UInt32" :> "uint32_t") @@
    ("long" :> "int64_t") @@ ("Int64" :> "int64_t") @@ ("System.Int64" :> "int64_t") @@
    ("ulong" :> "uint64_t") @@ ("UInt64" :> "uint64_t") @@ ("System.UInt64" :> "uint64_t") @@
    ("float" :> "float") @@ ("Single" :> "float") @@ ("System.Single" :> "float") @@
    ("double" :> "double") @@ ("Double" :> "double") @@ ("System.Double" :> "double") @@
    ("string" :> "System_String_o*") @@ ("String" :> "System_String_o*") @@
    ("System.String" :> "System_String_o*") @@
    ("void" :> "void") @@
    ("IntPtr" :> "intptr_t") @@ ("System.IntPtr" :> "intptr_t") @@
    ("UIntPtr" :> "uintptr_t") @@ ("System.UIntPtr" :> "uintptr_t") @@
    ("object" :> "Il2CppObject*") @@ ("Object" :> "Il2CppObject*") @@
    ("System.Object" :> "Il2CppObject*")

\* PRIMITIVE_MAP.get(key) where the code writes PRIMITIVE_MAP.get(key, default):
\* the default forgotten.
PrimitiveGetNoDefault(key, default) ==
    IF key \in DOMAIN PRIMITIVE_MAP THEN PRIMITIVE_MAP[key] ELSE NoneStr

\* PRIMITIVE_MAP.get(key, default).
PrimitiveGet(key, default) ==
    IF key \in DOMAIN PRIMITIVE_MAP THEN PRIMITIVE_MAP[key] ELSE default

IGNORED_BASES ==
    {"object", "System.Object", "Il2CppSystem.Object", "ValueType", "System.ValueType"}

\* The first position at or after i whose character is c, 0 when there is none.
FindFrom(s, i, c) ==
    LET at == {j \in i..Len(s) : Ch(s, j) = c}
    IN  IF at = {} THEN 0 ELSE SetMin(at)

\* \s*(?:\{)?\s*$ matched at position i.
BraceTail(s, i) ==
    LET j == SkipWhile(s, i, Whitespace)
    IN  \/ j > Len(s)
        \/ Ch(s, j) = "{" /\ SkipWhile(s, j + 1, Whitespace) > Len(s)

\* FIELD_OFFSET_RE.search(s): \[\s*FieldOffset\s*\( somewhere in s.
FIELD_OFFSET_RE(s) ==
    \E i \in 1..Len(s) :
        /\ Ch(s, i) = "["
        /\ LET j == SkipWhile(s, i + 1, Whitespace)
               k == SkipWhile(s, j + Len("FieldOffset"), Whitespace)
           IN  /\ Slice(s, j, j + Len("FieldOffset") - 1) = "FieldOffset"
               /\ k <= Len(s)
               /\ Ch(s, k) = "("

NoMatch == [ok |-> FALSE, kind |-> "", name |-> "", bases |-> NoneStr]

\* NAMESPACE_RE.match(s): ^namespace\s+([\w\.]+)\s*(?:\{)?\s*$; name is group 1.
NAMESPACE_RE(s) ==
    LET kw    == Len("namespace")
        start == SkipWhile(s, kw + 1, Whitespace)
        stop  == SkipWhile(s, start, WordChars \cup {"."})
    IN  IF /\ StartsWith(s, "namespace")
           /\ start > kw + 1
           /\ stop > start
           /\ BraceTail(s, stop)
        THEN [ok |-> TRUE, kind |-> "namespace", name |-> Slice(s, start, stop - 1),
              bases |-> NoneStr]
        ELSE NoMatch

Match(kind, name, bases) == [ok |-> TRUE, kind |-> kind, name |-> name, bases |-> bases]

\* (?:\s*:\s*(?P<bases>[^\{]+))?\s*(?:\{)?\s*$ once the colon is matched:
\* the bases start at bStart and stop before the first brace after it.
TypeBasesEnd(s, kind, name, bStart, bStop) ==
    IF BraceTail(s, bStop) THEN Match(kind, name, Slice(s, bStart, bStop - 1)) ELSE NoMatch

\* first is where the white space after the colon stops.  [^\{]+ needs a
\* character: \s* gives its last one back when the white space after the
\* colon is all there is before the brace.
TypeBasesStart(s, kind, name, bStart) ==
    IF bStart = 0 THEN NoMatch
    ELSE TypeBasesEnd(s, kind, name, bStart, SkipUntil(s, bStart, {"{"}))

TypeBases(s, kind, name, colon, first) ==
    TypeBasesStart(s, kind, name,
                   IF first <= Len(s) /\ Ch(s, first) # "{" THEN first
                   ELSE IF first > colon + 1 THEN first - 1 ELSE 0)

\* colon is where the white space after the name stops.
TypeColon(s, kind, name, nameEnd, colon) ==
    IF Ch(s, colon) = ":"
    THEN TypeBases(s, kind, name, colon, SkipWhile(s, colon + 1, Whitespace))
    ELSE IF BraceTail(s, nameEnd) THEN Match(kind, name, NoneStr)
    ELSE NoMatch

\* (?P<name>[\w`]+(?:<[^>]+>)?): the name runs from q to before nameEnd.
TypeName(s, kind, q, nameEnd) ==
    TypeColon(s, kind, Slice(s, q, nameEnd - 1), nameEnd, SkipWhile(s, nameEnd, Whitespace))

\* idEnd is where the word characters and backticks of the name stop and
\* close where the angle bracket closes, 0 when none opens at idEnd or none
\* closes; <[^>]+> needs a character between the brackets.
TypeGeneric(s, kind, q, idEnd, close) ==
    IF idEnd = q THEN NoMatch
    ELSE TypeName(s, kind, q, IF close > idEnd + 1 THEN close + 1 ELSE idEnd)

TypeIdentifier(s, kind, q, idEnd) ==
    TypeGeneric(s, kind, q, idEnd,
                IF Ch(s, idEnd) = "<" THEN FindFrom(s, idEnd + 1, ">") ELSE 0)

\* The part of TYPE_RE after the kind keyword and its white space, matched at
\* position q: the name, an optional colon with the bases (what precedes the
\* brace), and the brace tail.
TypeTail(s, kind, q) == TypeIdentifier(s, kind, q, SkipWhile(s, q, WordChars \cup {Backtick}))

\* (?P<mods>(?:[\w]+\s+)*)(?P<kind>class|struct|enum)\s+ and the rest, matched at
\* position p: the word at p is one more modifier when the rest matches that
\* way (the group is greedy), and otherwise the kind keyword.
RECURSIVE TypeWords(_, _)
TypeWords(s, p) ==
    LET wEnd == SkipWhile(s, p, WordChars)
        next == SkipWhile(s, wEnd, Whitespace)
        word == Slice(s, p, wEnd - 1)
        more == TypeWords(s, next)
    IN  IF wEnd = p \/ next = wEnd \/ next > Len(s) THEN NoMatch
        ELSE IF more.ok THEN more
        ELSE IF word \in {"class", "struct", "enum"} THEN TypeTail(s, word, next)
        ELSE NoMatch

\* (?P<prefix>(?:\[[^\]]+\]\s*)*): the position after the leading attributes.
RECURSIVE AfterAttributes(_, _)
AfterAttributes(s, p) ==
    LET close == FindFrom(s, p + 1, "]")
    IN  IF p <= Len(s) /\ Ch(s, p) = "[" /\ close > p + 1
        THEN AfterAttributes(s, SkipWhile(s, close + 1, Whitespace))
        ELSE p

\* TYPE_RE.match(s); kind, name and bases are the named groups.
TYPE_RE(s) == TypeWords(s, AfterAttributes(s, 1))

(***************************************************************************)
(* Name helpers                                                            *)
(***************************************************************************)

\* The replacements with the dots folded first, before the characters that
\* are folded into dots.
StructNameReplacementsDotsFirst ==
    << <<".", "_">>, <<"::", ".">>, <<"+", ".">>, <<"/", ".">>,
       <<" " \o Backtick, Backtick>>, <<Backtick, "_">>, <<"<", "_">>, <<">", "">>,
       <<",", "_">>, <<" ", "_">>, <<"[", "_">>, <<"]", "">>, <<"-", "_">>,
       <<":", "_">> >>

\* The replacements sanitize_struct_name makes, in its order.
StructNameReplacements ==
    << <<"::", ".">>, <<"+", ".">>, <<"/", ".">>, <<" " \o Backtick, Backtick>>,
       <<Backtick, "_">>, <<"<", "_">>, <<">", "">>, <<",", "_">>, <<" ", "_">>,
       <<"[", "_">>, <<"]", "">>, <<"-", "_">>, <<":", "_">>, <<".", "_">> >>

RECURSIVE ReplaceEach(_, _)
ReplaceEach(s, pairs) ==
    IF pairs = <<>> THEN s
    ELSE ReplaceEach(Replace(s, pairs[1][1], pairs[1][2]), Tail(pairs))

\* if s.startswith(prefix): s = s[len(prefix):]
DropPrefix(s, prefix) == IF StartsWith(s, prefix) THEN From(s, Len(prefix) + 1) ELSE s

\* A sanitizer that drops the leading underscore before it collapses the runs.
SanitizeDropFirst(name) ==
    CollapseUnderscores(DropPrefix(ReplaceEach(name, StructNameReplacements), "_"))

sanitize_struct_name(name) ==
    DropPrefix(CollapseUnderscores(ReplaceEach(name, StructNameReplacements)), "_")

\* IDENTIFIER_SANITIZE_RE.sub("_", s): every character outside [0-9A-Za-z_]
\* becomes an underscore.
RECURSIVE IdentifierSanitize(_)
IdentifierSanitize(s) ==
    IF s = "" THEN ""
    ELSE (IF Ch(s, 1) \in WordChars THEN Ch(s, 1) ELSE "_") \o IdentifierSanitize(From(s, 2))

\* if sanitized and sanitized[0].isdigit(): sanitized = f"_{sanitized}"
GuardLeadingDigit(s) == IF Ch(s, 1) \in Digits THEN "_" \o s ELSE s

\* sanitized or "field"
OrField(s) == IF s = "" THEN "field" ELSE s

sanitize_identifier(name) ==
    OrField(GuardLeadingDigit(CollapseUnderscores(IdentifierSanitize(
        Replace(Replace(DropPrefix(Strip(name), "@"), "<", "_"), ">", "_")))))

RECURSIVE StripLeadingModifiers(_)
StripLeadingModifiers(remaining) ==
    LET parts == SplitFirstWord(remaining)
    IN  IF Len(parts) > 0 /\ parts[1] \in MODIFIERS
        THEN IF Len(parts) = 1 THEN "" ELSE StripLeadingModifiers(parts[2])
        ELSE remaining

strip_modifiers(declaration) == StripLeadingModifiers(Strip(declaration))

\* The loop of split_type_and_name: the position of the first white space
\* outside angle and square brackets at or after i, 0 when there is none.
RECURSIVE TypeEnd(_, _, _)
TypeEnd(declaration, i, depth) ==
    IF i > Len(declaration) THEN 0
    ELSE IF Ch(declaration, i) \in {"<", "["} THEN TypeEnd(declaration, i + 1, depth + 1)
    ELSE IF Ch(declaration, i) \in {">", "]"}
    THEN TypeEnd(declaration, i + 1, IF depth > 0 THEN depth - 1 ELSE 0)
    ELSE IF Ch(declaration, i) \in Whitespace /\ depth = 0 THEN i
    ELSE TypeEnd(declaration, i + 1, depth)

\* if "//" in declaration: declaration = declaration.split("//", 1)[0].rstrip()
DropComment(declaration) ==
    IF Contains(declaration, "//") THEN RStrip(BeforeFirst(declaration, "//"))
    ELSE declaration

\* The end of split_type_and_name, for the declaration without its modifiers
\* and the position type_end the loop stops at (0 for None).
SplitAt(declaration, type_end) ==
    IF declaration = "" \/ type_end = 0
    THEN [ok |-> FALSE, type_part |-> "", name_part |-> ""]
    ELSE [ok |-> TRUE, type_part |-> Slice(declaration, 1, type_end - 1),
          name_part |-> Strip(BeforeFirst(Strip(From(declaration, type_end)), "="))]

SplitDeclaration(declaration) == SplitAt(declaration, TypeEnd(declaration, 1, 0))

\* split_type_and_name: ok is FALSE where the function raises ValueError.
split_type_and_name(declaration) ==
    SplitDeclaration(strip_modifiers(DropComment(RStripChar(Strip(declaration), ";"))))

normalise_type_name(name) ==
    Replace(Replace(DropPrefix(Strip(name), "global::"), "::", "."), "+", ".")

(***************************************************************************)
(* Header templates.  The preambles are opaque text to the generator; the  *)
(* model keeps of each the declarations it makes, bodies left out.         *)
(***************************************************************************)

GENERIC_HEADER ==
    "struct MethodInfo;\nstruct VirtualInvokeData;\nstruct Il2CppType;\n"
    \o "struct Il2CppClass;\nstruct Il2CppObject;\nunion Il2CppRGCTXData;\n"
    \o "struct Il2CppRuntimeInterfaceOffsetPair;\n\n"

VariantTail == "struct Il2CppArrayBounds;\nstruct MethodInfo;\n\n"

HEADER_VARIANTS ==
    ("22" :> ("struct Il2CppClass;\nstruct Il2CppArray;\n" \o VariantTail)) @@
    ("24" :> ("struct Il2CppClass_1;\nstruct Il2CppClass_2;\nstruct Il2CppClass;\n"
              \o "struct Il2CppArray;\n" \o VariantTail)) @@
    ("24.1" :> ("struct Il2CppClass_1;\nstruct Il2CppClass_2;\nstruct Il2CppClass;\n"
                \o "struct Il2CppArray;\n" \o VariantTail)) @@
    ("24.2" :> ("struct Il2CppClass_1;\nstruct Il2CppClass_2;\nstruct Il2CppClass;\n"
                \o "struct Il2CppArray;\n" \o VariantTail)) @@
    ("27" :> ("struct Il2CppClass_1;\nstruct Il2CppClass_2;\nstruct Il2CppClass;\n"
              \o VariantTail)) @@
    ("29" :> ("struct Il2CppClass_1;\nstruct Il2CppClass_2;\nstruct Il2CppClass;\n"
              \o VariantTail))

\* A parser without choices: any version is let through.
AnyVersion == DOMAIN HEADER_VARIANTS \cup {"23"}

\* choices=sorted(HEADER_VARIANTS.keys()): the values --header-version accepts.
HeaderVersions == DOMAIN HEADER_VARIANTS

(***************************************************************************)
(* Data structures                                                         *)
(***************************************************************************)

\* Field(name, original_type, is_static): c_type and referenced start as None.
Field(name, original_type, is_static) ==
    [name |-> name, original_type |-> original_type, is_static |-> is_static,
     c_type |-> NoneStr, referenced |-> 0]

TypeInfo(full_name, short_name, kind, parent, enum_base) ==
    [full_name |-> full_name, short_name |-> short_name,
     struct_name |-> sanitize_struct_name(full_name), kind |-> kind,
     parent |-> parent, enum_base |-> enum_base,
     fields |-> <<>>, static_fields |-> <<>>]

is_value_type(info) == info.kind \in {"struct", "enum"}

is_enum(info) == info.kind = "enum"

Context(kind, name, pop_depth, type_info, entered) ==
    [kind |-> kind, name |-> name, pop_depth |-> pop_depth,
     type_info |-> type_info, entered |-> entered]

(***************************************************************************)
(* AliasMap: _map takes a name to the TypeInfo bound to it (its position   *)
(* in type_infos) or to None (0), the mark of an ambiguous name.           *)
(***************************************************************************)

AliasMapInit == [alias \in {} |-> 0]

\* An add that binds the alias to the last type claiming it, marking nothing
\* ambiguous.
AliasMapOverwrite(map, alias, info) == (alias :> info) @@ map

\* An add that binds an ambiguous alias again, to the type that claims it.
AliasMapRebind(map, alias, info) ==
    IF alias \notin DOMAIN map THEN (alias :> info) @@ map
    ELSE IF map[alias] = info THEN map
    ELSE IF map[alias] = 0 THEN [map EXCEPT ![alias] = info]
    ELSE [map EXCEPT ![alias] = 0]

\* AliasMap.add once the alias is normalised.
AliasMapBind(map, alias, info) ==
    IF alias \notin DOMAIN map THEN (alias :> info) @@ map
    ELSE IF map[alias] = info THEN map
    ELSE IF map[alias] = 0 THEN map
    ELSE [map EXCEPT ![alias] = 0]

AliasMapAdd(map, alias_name, info) ==
    AliasMapBind(map, normalise_type_name(alias_name), info)

\* dict.get(key): None (0) for a missing key.
MapGet(map, key) == IF key \in DOMAIN map THEN map[key] ELSE 0

\* name.split('.')[-1]
SimpleName(pieces) == pieces[Len(pieces)]

\* AliasMap.resolve once the name is normalised.
AliasMapLookup(map, name) ==
    IF MapGet(map, name) # 0 THEN MapGet(map, name)
    ELSE MapGet(map, SimpleName(Split(name, ".")))

AliasMapResolve(map, type_name) == AliasMapLookup(map, normalise_type_name(type_name))

(***************************************************************************)
(* parse_dump: the body of the loop over the lines of the dump             *)
(***************************************************************************)

\* [b.strip() for b in bases.split(',') if b.strip()]
BaseCandidates(bases) ==
    LET pieces == Split(bases, ",")
        RECURSIVE Keep(_)
        Keep(i) ==
            IF i > Len(pieces) THEN <<>>
            ELSE (IF Strip(pieces[i]) # "" THEN <<Strip(pieces[i])>> ELSE <<>>) \o Keep(i + 1)
    IN  Keep(1)

\* The first base outside IGNORED_BASES, None when there is none.
FirstParent(candidates) ==
    LET at == {i \in 1..Len(candidates) : candidates[i] \notin IGNORED_BASES}
    IN  IF at = {} THEN NoneStr ELSE candidates[SetMin(at)]

\* Names taken in the order of the stack, namespaces and types together.
RECURSIVE StackOrderNames(_, _)
StackOrderNames(contexts, kind) ==
    IF contexts = <<>> \/ kind # "namespace" THEN <<>>
    ELSE <<contexts[1].name>> \o StackOrderNames(Tail(contexts), kind)

\* [ctx.name for ctx in contexts if ctx.kind == kind]; a type context's name
\* is its TypeInfo's short_name.
RECURSIVE ContextNames(_, _)
ContextNames(contexts, kind) ==
    IF contexts = <<>> THEN <<>>
    ELSE (IF contexts[1].kind = kind THEN <<contexts[1].name>> ELSE <<>>)
         \o ContextNames(Tail(contexts), kind)

\* A pop loop without the test of entered: the last context goes as soon as
\* the depth is below its pop_depth.
RECURSIVE PopUnentered(_, _, _)
PopUnentered(contexts, current_type, brace_depth) ==
    IF contexts # <<>> /\ brace_depth < contexts[Len(contexts)].pop_depth
    THEN LET popped == contexts[Len(contexts)]
             left   == SubSeq(contexts, 1, Len(contexts) - 1)
             open   == {i \in 1..Len(left) : left[i].kind = "type" /\ left[i].entered}
             cur    == IF popped.kind # "type" THEN current_type
                       ELSE IF open = {} THEN 0
                       ELSE left[SetMax(open)].type_info
         IN  PopUnentered(left, cur, brace_depth)
    ELSE [contexts |-> contexts, current_type |-> current_type]

\* A pop loop that leaves current_type as it is.
RECURSIVE PopKeepingCurrent(_, _, _)
PopKeepingCurrent(contexts, current_type, brace_depth) ==
    IF contexts # <<>>
       /\ contexts[Len(contexts)].entered
       /\ brace_depth < contexts[Len(contexts)].pop_depth
    THEN PopKeepingCurrent(SubSeq(contexts, 1, Len(contexts) - 1), current_type, brace_depth)
    ELSE [contexts |-> contexts, current_type |-> current_type]

\* The while loop that ends the loop body: contexts are popped from the end
\* while the last one is entered and the depth is below its pop_depth; a
\* popped type context makes the last entered type context left the current
\* type.
RECURSIVE PopContexts(_, _, _)
PopContexts(contexts, current_type, brace_depth) ==
    IF contexts # <<>>
       /\ contexts[Len(contexts)].entered
       /\ brace_depth < contexts[Len(contexts)].pop_depth
    THEN LET popped == contexts[Len(contexts)]
             left   == SubSeq(contexts, 1, Len(contexts) - 1)
             open   == {i \in 1..Len(left) : left[i].kind = "type" /\ left[i].entered}
             cur    == IF popped.kind # "type" THEN current_type
                       ELSE IF open = {} THEN 0
                       ELSE left[SetMax(open)].type_info
         IN  PopContexts(left, cur, brace_depth)
    ELSE [contexts |-> contexts, current_type |-> current_type]

\* for context in contexts: if not context.entered and brace_depth >= context.pop_depth
MarkEntered(contexts, brace_depth) ==
    [i \in 1..Len(contexts) |->
        IF ~contexts[i].entered /\ brace_depth >= contexts[i].pop_depth
        THEN [contexts[i] EXCEPT !.entered = TRUE]
        ELSE contexts[i]]

\* block_depth = new_depth if open_braces > 0 else brace_depth + 1
BlockDepth(st, open_braces, new_depth) ==
    IF open_braces > 0 THEN new_depth ELSE st.brace_depth + 1

\* if namespace_match:
NamespaceLine(st, namespace_name, open_braces, new_depth) ==
    [st EXCEPT
        !.contexts = Append(@, Context("namespace", namespace_name,
                                       BlockDepth(st, open_braces, new_depth),
                                       0, open_braces > 0))]

\* The end of the type branch: the TypeInfo is made, appended, bound to its
\* two names, and made the current type; new_index is its place in type_infos.
TypeDeclared(st, short_name, new_index, type_info, open_braces, new_depth) ==
    [st EXCEPT
        !.type_infos = Append(@, type_info),
        !.alias_map = AliasMapAdd(AliasMapAdd(@, type_info.full_name, new_index),
                                  short_name, new_index),
        !.contexts = Append(@, Context("type", short_name,
                                       BlockDepth(st, open_braces, new_depth),
                                       new_index, open_braces > 0)),
        !.current_type = new_index,
        !.pending_field = FALSE]

\* The type branch once base_candidates is computed (empty without bases);
\* base_candidates[0] of an empty list raises IndexError.
TypeBasesLine(st, ty, candidates, open_braces, new_depth) ==
    IF ty.kind = "enum" /\ ty.bases # NoneStr /\ candidates = <<>>
    THEN [st EXCEPT !.raised = "IndexError"]
    ELSE TypeDeclared(st, ty.name, Len(st.type_infos) + 1,
                      TypeInfo(Join(ContextNames(st.contexts, "namespace")
                                        \o ContextNames(st.contexts, "type")
                                        \o <<ty.name>>, "."),
                               ty.name, ty.kind,
                               IF ty.kind # "enum" THEN FirstParent(candidates) ELSE NoneStr,
                               IF ty.kind = "enum" /\ candidates # <<>>
                               THEN candidates[1] ELSE NoneStr),
                      open_braces, new_depth)

\* elif type_match:
TypeLine(st, ty, open_braces, new_depth) ==
    TypeBasesLine(st, ty, IF ty.bases # NoneStr THEN BaseCandidates(ty.bases) ELSE <<>>,
                  open_braces, new_depth)

\* The else of the try: the field joins the list of the current type.
AppendField(st, field) ==
    IF field.is_static
    THEN [st EXCEPT !.type_infos[st.current_type].static_fields = Append(@, field),
                    !.pending_field = FALSE]
    ELSE [st EXCEPT !.type_infos[st.current_type].fields = Append(@, field),
                    !.pending_field = FALSE]

\* A field branch whose except clause leaves pending_field set.
FieldDeclaredKeepingFlag(st, decl, is_static) ==
    IF ~decl.ok THEN st
    ELSE AppendField(st, Field(sanitize_identifier(decl.name_part), decl.type_part,
                               is_static))

\* The try of the field branch: decl is what split_type_and_name returns.
FieldDeclared(st, decl, is_static) ==
    IF ~decl.ok THEN [st EXCEPT !.pending_field = FALSE]
    ELSE AppendField(st, Field(sanitize_identifier(decl.name_part), decl.type_part,
                               is_static))

\* elif pending_field and current_type and stripped and not stripped.startswith("["):
FieldLine(st, stripped) ==
    FieldDeclared(st, split_type_and_name(stripped),
                  Contains(" " \o stripped \o " ", " static "))

\* The if/elif chain of the loop body; ns and ty are the two matches.
LineBranch(st, stripped, ns, ty, open_braces, new_depth) ==
    IF ns.ok THEN NamespaceLine(st, ns.name, open_braces, new_depth)
    ELSE IF ty.ok THEN TypeLine(st, ty, open_braces, new_depth)
    ELSE IF FIELD_OFFSET_RE(stripped) THEN [st EXCEPT !.pending_field = TRUE]
    ELSE IF st.pending_field /\ st.current_type # 0 /\ stripped # ""
            /\ ~StartsWith(stripped, "[")
    THEN FieldLine(st, stripped)
    ELSE st

\* brace_depth = new_depth and what the two loops leave of contexts and
\* current_type.
CloseContexts(st, new_depth, popped) ==
    [st EXCEPT !.brace_depth = new_depth,
               !.contexts = popped.contexts,
               !.current_type = popped.current_type]

\* The end of the loop body, which an exception raised in it does not reach.
LineEnd(st, new_depth) ==
    IF st.raised # "" THEN st
    ELSE CloseContexts(st, new_depth,
                       PopContexts(MarkEntered(st.contexts, new_depth),
                                   st.current_type, new_depth))

LineCounted(st, stripped, open_braces, new_depth) ==
    LineEnd(LineBranch(st, stripped, NAMESPACE_RE(stripped), TYPE_RE(stripped),
                       open_braces, new_depth),
            new_depth)

LineStripped(st, line) ==
    LineCounted(st, Strip(line), Count(line, "{"),
                st.brace_depth + Count(line, "{") - Count(line, "}"))

\* One pass of the loop over the lines, on the scanner's state st (type_infos,
\* alias_map, contexts, brace_depth, pending_field, current_type); raised is
\* the exception that leaves parse_dump, "" when the line is processed.
ProcessLine(st, raw_line) == LineStripped(st, RStrip(raw_line))

\* The scanner's state when parse_dump starts.
ScanInit ==
    [type_infos |-> <<>>, alias_map |-> AliasMapInit, contexts |-> <<>>,
     brace_depth |-> 0, pending_field |-> FALSE, current_type |-> 0, raised |-> ""]

\* parse_dump on a whole file: the loop body line by line, until a line raises.
RECURSIVE ParseLines(_, _)
ParseLines(st, lines) ==
    IF lines = <<>> \/ st.raised # "" THEN st
    ELSE ParseLines(ProcessLine(st, Head(lines)), Tail(lines))

(***************************************************************************)
(* Type resolution                                                         *)
(***************************************************************************)

\* while working.endswith("*"): the pointer markers stripped, with the white
\* space before each; suffix is the markers counted.
RECURSIVE StripPointers(_, _)
StripPointers(working, suffix) ==
    IF EndsWith(working, "*")
    THEN StripPointers(RStrip(Slice(working, 1, Len(working) - 1)), suffix \o "*")
    ELSE [working |-> working, pointer_suffix |-> suffix]

\* A loop that never runs: the array markers are left on the name.
KeepArrays(working, count) == [working |-> working, array_count |-> count]

\* while working.endswith("[]"): the array markers stripped and counted.
RECURSIVE StripArrays(_, _)
StripArrays(working, count) ==
    IF EndsWith(working, "[]")
    THEN StripArrays(RStrip(Slice(working, 1, Len(working) - 2)), count + 1)
    ELSE [working |-> working, array_count |-> count]

\* if nullable: working = working[:-1]
DropNullable(working) ==
    IF EndsWith(working, "?") THEN Slice(working, 1, Len(working) - 1) ELSE working

\* A base that takes a class for a value type: no pointer to its object.
ReferencedBaseNoPointer(info) ==
    IF is_enum(info)
    THEN PrimitiveGet(IF info.enum_base # NoneStr THEN info.enum_base ELSE "int32_t",
                      "int32_t")
    ELSE info.struct_name \o "_o"

\* base for a referenced TypeInfo.
ReferencedBase(info) ==
    IF is_enum(info)
    THEN PrimitiveGet(IF info.enum_base # NoneStr THEN info.enum_base ELSE "int32_t",
                      "int32_t")
    ELSE IF is_value_type(info) THEN info.struct_name \o "_o"
    ELSE info.struct_name \o "_o*"

\* The returns of convert_type, for the name left in working, the markers
\* stripped from it, what PRIMITIVE_MAP holds for it (None when nothing) and
\* the position in type_infos of what alias_map resolves it to (0 for None).
ConvertBase(working, pointer_suffix, array_count, primitive, referenced, type_infos) ==
    IF primitive # NoneStr
    THEN [c_type |-> IF array_count > 0 THEN "Il2CppArray*"
                     ELSE primitive \o pointer_suffix,
          referenced |-> 0]
    ELSE IF referenced # 0
    THEN [c_type |-> IF array_count > 0 THEN "Il2CppArray*"
                     ELSE ReferencedBase(type_infos[referenced]) \o pointer_suffix,
          referenced |-> IF is_value_type(type_infos[referenced]) THEN referenced ELSE 0]
    ELSE IF array_count > 0 THEN [c_type |-> "Il2CppArray*", referenced |-> 0]
    ELSE IF working \in {"IntPtr", "System.IntPtr"}
    THEN [c_type |-> "intptr_t" \o pointer_suffix, referenced |-> 0]
    ELSE [c_type |-> "Il2CppObject*", referenced |-> 0]

ConvertWorking(working, pointer_suffix, array_count, alias_map, type_infos) ==
    ConvertBase(working, pointer_suffix, array_count, PrimitiveGet(working, NoneStr),
                AliasMapResolve(alias_map, working), type_infos)

ConvertArrays(arr, pointer_suffix, alias_map, type_infos) ==
    ConvertWorking(Strip(Replace(DropNullable(arr.working), "?", "")), pointer_suffix,
                   arr.array_count, alias_map, type_infos)

ConvertPointers(ptr, alias_map, type_infos) ==
    ConvertArrays(StripArrays(ptr.working, 0), ptr.pointer_suffix, alias_map, type_infos)

\* convert_type(original_type, alias_map): the native expression c_type and the
\* TypeInfo referenced (0 for None); type_infos holds the objects alias_map
\* refers to.
convert_type(original_type, alias_map, type_infos) ==
    ConvertPointers(StripPointers(Strip(original_type), ""), alias_map, type_infos)

\* The assignments of resolve_field_types to one field.
ResolveField(field, converted) ==
    [field EXCEPT !.c_type = converted.c_type, !.referenced = converted.referenced]

\* The loop body of resolve_field_types on one list of fields.
ResolveFields(fields, alias_map, type_infos) ==
    [i \in DOMAIN fields |->
        ResolveField(fields[i], convert_type(fields[i].original_type, alias_map, type_infos))]

\* The fields of one type resolved: fields and static_fields are the two
\* lists info.fields + info.static_fields runs through.
ResolveType(info, all) ==
    [info EXCEPT !.fields = SubSeq(all, 1, Len(info.fields)),
                 !.static_fields = SubSeq(all, Len(info.fields) + 1, Len(all))]

\* resolve_field_types: every field of every type gets its c_type and referenced.
resolve_field_types(type_infos, alias_map) ==
    [i \in DOMAIN type_infos |->
        ResolveType(type_infos[i],
                    ResolveFields(type_infos[i].fields \o type_infos[i].static_fields,
                                  alias_map, type_infos))]

(***************************************************************************)
(* Header rendering                                                        *)
(***************************************************************************)

\* The lines render_type writes for a list of fields: one per field that has
\* a c_type.
RECURSIVE FieldLines(_)
FieldLines(fields) ==
    IF fields = <<>> THEN ""
    ELSE (IF fields[1].c_type = NoneStr THEN ""
          ELSE "\t" \o fields[1].c_type \o " " \o fields[1].name \o ";\n")
         \o FieldLines(Tail(fields))

\* parent_info = alias_map.resolve(info.parent), None (0) without a parent.
ResolveParent(info, alias_map) ==
    IF info.parent # NoneStr THEN AliasMapResolve(alias_map, info.parent) ELSE 0

\* parent_decl of render_type: the structure name taken as the base of the
\* fields aggregate, None when there is none.
ParentDecl(info, parent_info, type_infos) ==
    IF parent_info # 0
       /\ ~is_enum(type_infos[parent_info])
       /\ type_infos[parent_info].struct_name # info.struct_name
    THEN type_infos[parent_info].struct_name
    ELSE NoneStr

\* "".join(lines) of render_type.
RenderLines(info, parent_decl, fields_struct_name) ==
    (IF parent_decl # NoneStr
     THEN "struct " \o fields_struct_name \o " : " \o parent_decl \o "_Fields\n{\n"
     ELSE "struct " \o fields_struct_name \o "\n{\n")
    \o FieldLines(info.fields)
    \o "};\n\n"
    \o "struct " \o info.struct_name \o "_c\n{\n"
    \o "\tIl2CppClass_1 _1;\n"
    \o (IF info.static_fields # <<>>
        THEN "\t" \o info.struct_name \o "_StaticFields* static_fields;\n"
        ELSE "\tvoid* static_fields;\n")
    \o "\tIl2CppRGCTXData* rgctx_data;\n"
    \o "\tIl2CppClass_2 _2;\n"
    \o "\tVirtualInvokeData vtable[32];\n"
    \o "};\n\n"
    \o "struct " \o info.struct_name \o "_o\n{\n"
    \o (IF ~is_value_type(info)
        THEN "\t" \o info.struct_name \o "_c *klass;\n" \o "\tvoid *monitor;\n"
        ELSE "")
    \o "\t" \o fields_struct_name \o " fields;\n"
    \o "};\n\n"
    \o (IF info.static_fields # <<>>
        THEN "struct " \o info.struct_name \o "_StaticFields\n{\n"
             \o FieldLines(info.static_fields)
             \o "};\n\n"
        ELSE "")

render_type(info, alias_map, type_infos) ==
    IF info.fields = <<>> /\ info.static_fields = <<>> THEN ""
    ELSE RenderLines(info, ParentDecl(info, ResolveParent(info, alias_map), type_infos),
                     info.struct_name \o "_Fields")

\* if parent_info: emit(parent_info)
ParentDependency(parent_info) == IF parent_info # 0 THEN <<parent_info>> ELSE <<>>

\* The emit calls of "for field in info.fields + info.static_fields".
RECURSIVE FieldDependencies(_)
FieldDependencies(fields) ==
    IF fields = <<>> THEN <<>>
    ELSE (IF fields[1].referenced # 0 THEN <<fields[1].referenced>> ELSE <<>>)
         \o FieldDependencies(Tail(fields))

\* An emit that renders a type without emitting anything first.
NoDependencies(info, alias_map) == <<>>

\* The calls emit(info) makes before it renders info: the parent, when
\* alias_map resolves it, then the referenced type of every field that has one.
EmitDependencies(info, alias_map) ==
    ParentDependency(ResolveParent(info, alias_map))
    \o FieldDependencies(info.fields \o info.static_fields)

\* The depth of nested emit calls at which Python raises RecursionError (the
\* interpreter's recursion limit, scaled down).
RecursionLimit == 8

\* The state emit works on when generate_header starts: emitted and chunks,
\* with order, the types the chunks were rendered for (the model's record of
\* what chunks holds), and raised, the exception that left emit.
EmitInit == [emitted |-> {}, chunks |-> <<>>, order |-> <<>>, raised |-> ""]

\* An end of emit that leaves out a type render_type returns no text for.
EmitRenderText(index, info, em, alias_map, type_infos) ==
    IF em.raised # "" \/ render_type(info, alias_map, type_infos) = "" THEN em
    ELSE [em EXCEPT
            !.chunks = Append(@, render_type(info, alias_map, type_infos)),
            !.order = Append(@, index),
            !.emitted = @ \cup {info.struct_name}]

\* The end of emit(info): chunks.append(render_type(info, alias_map)) and
\* emitted.add(info.struct_name), on what the nested calls left.
EmitRender(index, info, em, alias_map, type_infos) ==
    IF em.raised # "" THEN em
    ELSE [em EXCEPT
            !.chunks = Append(@, render_type(info, alias_map, type_infos)),
            !.order = Append(@, index),
            !.emitted = @ \cup {info.struct_name}]

\* emit(info) of generate_header, for the type at position index, as call
\* number depth of the nested calls; an exception raised by a nested call
\* leaves every call above it.
RECURSIVE emit(_, _, _, _, _)
RECURSIVE EmitEach(_, _, _, _, _)
\* An emit that takes an enum for any other type.
EmitEnums(index, em, alias_map, type_infos, depth) ==
    IF depth > RecursionLimit THEN [em EXCEPT !.raised = "RecursionError"]
    ELSE IF type_infos[index].struct_name \in em.emitted THEN em
    ELSE EmitRender(index, type_infos[index],
                    EmitEach(EmitDependencies(type_infos[index], alias_map), em,
                             alias_map, type_infos, depth + 1),
                    alias_map, type_infos)

emit(index, em, alias_map, type_infos, depth) ==
    IF depth > RecursionLimit THEN [em EXCEPT !.raised = "RecursionError"]
    ELSE IF is_enum(type_infos[index]) THEN em
    ELSE IF type_infos[index].struct_name \in em.emitted THEN em
    ELSE EmitRender(index, type_infos[index],
                    EmitEach(EmitDependencies(type_infos[index], alias_map), em,
                             alias_map, type_infos, depth + 1),
                    alias_map, type_infos)

EmitEach(indices, em, alias_map, type_infos, depth) ==
    IF indices = <<>> \/ em.raised # "" THEN em
    ELSE EmitEach(Tail(indices),
                  emit(Head(indices), em, alias_map, type_infos, depth),
                  alias_map, type_infos, depth)

\* The end of generate_header: the header text, or ValueError for a version
\* HEADER_VARIANTS does not hold.
HeaderText(chunks, header_version) ==
    IF header_version \notin DOMAIN HEADER_VARIANTS
    THEN [raised |-> "ValueError", text |-> ""]
    ELSE [raised |-> "",
          text |-> GENERIC_HEADER \o HEADER_VARIANTS[header_version] \o Join(chunks, "")]

\* generate_header from the emit loop on.
EmitAll(em, header_version) ==
    IF em.raised # "" THEN [raised |-> em.raised, text |-> "", order |-> em.order]
    ELSE [raised |-> HeaderText(em.chunks, header_version).raised,
          text |-> HeaderText(em.chunks, header_version).text,
          order |-> em.order]

\* generate_header once resolve_field_types has run.
GenerateResolved(type_infos, alias_map, header_version) ==
    EmitAll(EmitEach([i \in 1..Len(type_infos) |-> i], EmitInit, alias_map, type_infos, 1),
            header_version)

\* generate_header(type_infos, alias_map, header_version) as a whole.
generate_header(type_infos, alias_map, header_version) ==
    GenerateResolved(resolve_field_types(type_infos, alias_map), alias_map, header_version)

(***************************************************************************)
(* The state of a run of main                                              *)
(***************************************************************************)

VARIABLES
    pc,              \* where the run is: parse_args, check_dump, scan, resolve,
                     \* emit, write, done; failed once an exception left it
    raised,          \* the exception that ended the run ("" while there is none)
    run,             \* 1 in the first run of main, 2 in a second one
    header_version,  \* --header-version as given on the command line
    dump_exists,     \* whether the --dump file exists
    dump,            \* the lines of the dump file read so far
    dump_fixed,      \* whether the whole file has been read once
    line_no,         \* the next line parse_dump reads
    type_infos, alias_map, contexts, brace_depth, pending_field, current_type,
    emitted, chunks, \* generate_header's emitted set and chunks list
    order,           \* the types the chunks were rendered for, in order
    next_emit,       \* the next type of "for info in type_infos: emit(info)"
    header_text,     \* what generate_header returned
    output_file,     \* the --output file: <<>> while absent, else <<its text>>
    output_before,   \* the --output file as it was before the first run
    first_output,    \* the --output file as the first run left it
    conv_type,       \* the declared type handed to convert_type
    conv_result,     \* what convert_type returned for it
    san_name,        \* the name handed to the two sanitizers
    san_result,      \* what they returned for it, and for what they returned
    add_log          \* the calls of AliasMap.add made so far: <<alias, info>> each

scan_vars == <<type_infos, alias_map, contexts, brace_depth, pending_field, current_type>>

emit_vars == <<emitted, chunks, order, next_emit>>

file_vars == <<header_version, dump_exists, output_before>>

conv_vars == <<conv_type, conv_result>>

unit_vars == <<san_name, san_result, add_log>>

vars ==
    <<pc, raised, run, header_version, dump_exists, dump, dump_fixed, line_no,
      type_infos, alias_map, contexts, brace_depth, pending_field, current_type,
      emitted, chunks, order, next_emit, header_text, output_file, output_before,
      first_output, conv_type, conv_result, san_name, san_result, add_log>>

(***************************************************************************)
(* Bounds and inputs of the model                                          *)
(***************************************************************************)

\* The longest dump file a run of main reads line by line.
MaxLines == 3

\* The lines such a dump file is made of.
Lines ==
    {"namespace A {", "struct B {", "class A_B : B", "[FieldOffset(0x0)]",
     "public B b;", "static int n;", "}"}

\* A version no preamble exists for.
UnsupportedVersion == "23"

Versions == DOMAIN HEADER_VARIANTS \cup {UnsupportedVersion}

\* The --output file before the run: absent, or left by an earlier use.
OutputsBefore == {<<>>, <<"stale">>}

(***************************************************************************)
(* main, step by step                                                      *)
(***************************************************************************)

\* A main without the test for an empty list of types.
NeverEmpty(infos) == FALSE

\* if not type_infos, in main.
NoTypesDiscovered(infos) == infos = <<>>

\* parse_args: argparse refuses a --header-version outside its choices.
ParseArgs ==
    /\ pc = "parse_args"
    /\ IF header_version \in HeaderVersions
       THEN pc' = "check_dump" /\ raised' = raised
       ELSE pc' = "failed" /\ raised' = "SystemExit"
    /\ UNCHANGED <<run, dump, dump_fixed, line_no, scan_vars, emit_vars, header_text,
                   output_file, first_output, file_vars, conv_vars, unit_vars>>

\* if not args.dump.exists(), then the first lines of parse_dump.
CheckDump ==
    /\ pc = "check_dump"
    /\ IF dump_exists
       THEN /\ pc' = "scan"
            /\ raised' = raised
            /\ type_infos' = ScanInit.type_infos
            /\ alias_map' = ScanInit.alias_map
            /\ contexts' = ScanInit.contexts
            /\ brace_depth' = ScanInit.brace_depth
            /\ pending_field' = ScanInit.pending_field
            /\ current_type' = ScanInit.current_type
            /\ line_no' = 1
       ELSE /\ pc' = "failed"
            /\ raised' = "SystemExit"
            /\ UNCHANGED <<scan_vars, line_no>>
    /\ UNCHANGED <<run, dump, dump_fixed, emit_vars, header_text, output_file,
                   first_output, file_vars, conv_vars, unit_vars>>

\* The scanner's state, as ProcessLine takes it.
ScanState ==
    [type_infos |-> type_infos, alias_map |-> alias_map, contexts |-> contexts,
     brace_depth |-> brace_depth, pending_field |-> pending_field,
     current_type |-> current_type, raised |-> ""]

\* What one pass of the loop leaves: st is what ProcessLine returns.
ScanResult(st) ==
    IF st.raised # ""
    THEN /\ pc' = "failed"
         /\ raised' = st.raised
         /\ UNCHANGED scan_vars
    ELSE /\ pc' = pc
         /\ raised' = raised
         /\ type_infos' = st.type_infos
         /\ alias_map' = st.alias_map
         /\ contexts' = st.contexts
         /\ brace_depth' = st.brace_depth
         /\ pending_field' = st.pending_field
         /\ current_type' = st.current_type

\* One pass of "for raw_line in stream" on the line raw_line.
ScanLine(raw_line) == ScanResult(ProcessLine(ScanState, raw_line))

\* parse_dump reads the next line: a line of the file as read before, or, the
\* first time the file is read, any of lines, for a file of at most longest
\* lines.
ReadFrom(lines, longest) ==
    /\ pc = "scan"
    /\ line_no <= Len(dump) \/ (~dump_fixed /\ Len(dump) < longest)
    /\ \E raw_line \in (IF line_no <= Len(dump) THEN {dump[line_no]} ELSE lines) :
          /\ ScanLine(raw_line)
          /\ dump' = IF line_no <= Len(dump) THEN dump ELSE Append(dump, raw_line)
    /\ line_no' = line_no + 1
    /\ UNCHANGED <<run, dump_fixed, emit_vars, header_text, output_file, first_output,
                   file_vars, conv_vars, unit_vars>>

ReadLine == ReadFrom(Lines, MaxLines)

\* The stream ends: parse_dump returns, and main stops without types.
EndOfFile ==
    /\ pc = "scan"
    /\ line_no > Len(dump)
    /\ dump_fixed' = TRUE
    /\ IF NoTypesDiscovered(type_infos)
       THEN pc' = "failed" /\ raised' = "SystemExit"
       ELSE pc' = "resolve" /\ raised' = raised
    /\ UNCHANGED <<run, dump, line_no, scan_vars, emit_vars, header_text, output_file,
                   first_output, file_vars, conv_vars, unit_vars>>

\* A generate_header whose emitted set outlives the call: chunks starts
\* empty, emitted holds what an earlier run left in it.
ResolveKeepingEmitted ==
    /\ pc = "resolve"
    /\ type_infos' = resolve_field_types(type_infos, alias_map)
    /\ chunks' = <<>>
    /\ order' = <<>>
    /\ next_emit' = 1
    /\ pc' = "emit"
    /\ UNCHANGED <<raised, run, dump, dump_fixed, line_no, alias_map, contexts,
                   brace_depth, pending_field, current_type, header_text, output_file,
                   first_output, file_vars, conv_vars, unit_vars, emitted>>

\* generate_header starts: resolve_field_types, then emitted and chunks empty.
ResolveFieldTypes ==
    /\ pc = "resolve"
    /\ type_infos' = resolve_field_types(type_infos, alias_map)
    /\ emitted' = EmitInit.emitted
    /\ chunks' = EmitInit.chunks
    /\ order' = EmitInit.order
    /\ next_emit' = 1
    /\ pc' = "emit"
    /\ UNCHANGED <<raised, run, dump, dump_fixed, line_no, alias_map, contexts,
                   brace_depth, pending_field, current_type, header_text, output_file,
                   first_output, file_vars, conv_vars, unit_vars>>

\* generate_header's emitted and chunks, as emit takes them.
EmitState ==
    [emitted |-> emitted, chunks |-> chunks, order |-> order, raised |-> ""]

\* What one call of emit from the loop leaves: em is what emit returns.
EmitResult(em) ==
    IF em.raised # ""
    THEN /\ pc' = "failed"
         /\ raised' = em.raised
         /\ UNCHANGED emit_vars
    ELSE /\ pc' = pc
         /\ raised' = raised
         /\ emitted' = em.emitted
         /\ chunks' = em.chunks
         /\ order' = em.order
         /\ next_emit' = next_emit + 1

\* One pass of "for info in type_infos: emit(info)".
EmitNext ==
    /\ pc = "emit"
    /\ next_emit <= Len(type_infos)
    /\ EmitResult(emit(next_emit, EmitState, alias_map, type_infos, 1))
    /\ UNCHANGED <<run, dump, dump_fixed, line_no, scan_vars, header_text, output_file,
                   first_output, file_vars, conv_vars, unit_vars>>

\* What the end of generate_header leaves: header is what HeaderText returns.
HeaderResult(header) ==
    IF header.raised # ""
    THEN pc' = "failed" /\ raised' = header.raised /\ header_text' = header_text
    ELSE pc' = "write" /\ raised' = raised /\ header_text' = header.text

\* The end of generate_header: the header is put together and returned.
AssembleHeader ==
    /\ pc = "emit"
    /\ next_emit > Len(type_infos)
    /\ HeaderResult(HeaderText(chunks, header_version))
    /\ UNCHANGED <<run, dump, dump_fixed, line_no, scan_vars, emit_vars, output_file,
                   first_output, file_vars, conv_vars, unit_vars>>

\* args.output.write_text(header_text): the file is created or replaced.
WriteOutput ==
    /\ pc = "write"
    /\ output_file' = <<header_text>>
    /\ pc' = "done"
    /\ UNCHANGED <<raised, run, dump, dump_fixed, line_no, scan_vars, emit_vars,
                   header_text, first_output, file_vars, conv_vars, unit_vars>>

\* main is run once more, with the same arguments and the same dump file.
RunAgain ==
    /\ pc \in {"done", "failed"}
    /\ run = 1
    /\ run' = 2
    /\ first_output' = output_file
    /\ pc' = "parse_args"
    /\ raised' = ""
    /\ dump_fixed' = TRUE
    /\ UNCHANGED <<dump, line_no, scan_vars, emit_vars, header_text, output_file,
                   file_vars, conv_vars, unit_vars>>

\* resolve_field_types calls convert_type on a field's declared type.
Convert ==
    /\ pc = "convert"
    /\ conv_result' = convert_type(conv_type, alias_map, type_infos)
    /\ pc' = "converted"
    /\ UNCHANGED <<raised, run, dump, dump_fixed, line_no, scan_vars, emit_vars,
                   header_text, output_file, first_output, file_vars, conv_type, unit_vars>>

\* No sanitizer has been called.
NotSanitized == [struct_name |-> "", struct_again |-> "", identifier |-> "", identifier_again |-> ""]

\* What every run starts from, whatever it is given.
Fresh ==
    /\ raised = ""
    /\ run = 1
    /\ line_no = 1
    /\ contexts = <<>>
    /\ brace_depth = 0
    /\ pending_field = FALSE
    /\ current_type = 0
    /\ emitted = {}
    /\ chunks = <<>>
    /\ order = <<>>
    /\ next_emit = 1
    /\ header_text = ""
    /\ output_file = output_before
    /\ first_output = <<>>
    /\ conv_result = [c_type |-> NoneStr, referenced |-> 0]
    /\ san_result = NotSanitized
    /\ add_log = <<>>

\* Before main runs: nothing read, nothing written.
Init ==
    /\ pc = "parse_args"
    /\ header_version \in Versions
    /\ dump_exists \in BOOLEAN
    /\ dump = <<>>
    /\ dump_fixed = FALSE
    /\ type_infos = <<>>
    /\ alias_map = AliasMapInit
    /\ output_before \in OutputsBefore
    /\ conv_type = ""
    /\ san_name = ""
    /\ Fresh

Next ==
    \/ ParseArgs
    \/ CheckDump
    \/ ReadLine
    \/ EndOfFile
    \/ ResolveFieldTypes
    \/ EmitNext
    \/ AssembleHeader
    \/ WriteOutput

\* One run of main on any dump of at most MaxLines lines.
Spec == Init /\ [][Next]_vars

NextTwice ==
    \/ Next
    \/ RunAgain

\* Two runs of main, one after the other, on the same arguments and file.
SpecTwice == Init /\ [][NextTwice]_vars

(***************************************************************************)
(* generate_header on the types of a bounded family of dumps               *)
(***************************************************************************)

\* The full names of the types, in the orders they are discovered in: B of
\* namespace A, the top-level A_B, whose structure name is the same, and S.
EmitNameOrders == {<<"A.B", "A_B", "S">>, <<"S", "A_B", "A.B">>}

EmitNames == {"A.B", "A_B", "S"}

\* The bases a type of that name can declare: S declares none.
ParentChoices(full_name) ==
    IF full_name = "S" THEN {NoneStr} ELSE {NoneStr} \cup EmitNames

\* The fields a type declares: none, or one field f, instance or static, of
\* the type of one of the names.
FieldChoices ==
    {<<>>} \cup {<<Field("f", type_name, is_static)>> :
                    type_name \in EmitNames, is_static \in BOOLEAN}

\* What parse_dump leaves of a type once its fields are read.
WithFields(info, fields) ==
    IF fields # <<>> /\ fields[1].is_static
    THEN [info EXCEPT !.static_fields = fields]
    ELSE [info EXCEPT !.fields = fields]

\* A type as parse_dump leaves it: its short name is the last piece of its
\* full name.
Discovered(full_name, kind, parent, fields) ==
    WithFields(TypeInfo(full_name, SimpleName(Split(full_name, ".")), kind, parent,
                        NoneStr),
               fields)

\* The types a name can be declared as: an enum, or a class or struct with
\* at most one base and at most one field.
TypeChoices(full_name) ==
    {Discovered(full_name, "enum", NoneStr, <<>>)}
    \cup {Discovered(full_name, kind, parent, fields) :
            kind \in {"class", "struct"},
            parent \in ParentChoices(full_name),
            fields \in FieldChoices}

EmitInputs ==
    UNION {TypeChoices(names[1]) \X TypeChoices(names[2]) \X TypeChoices(names[3]) :
              names \in EmitNameOrders}

\* The alias_map parse_dump leaves for type_infos: alias_map.add(full_name,
\* type_info) and alias_map.add(short_name, type_info), type after type.
RECURSIVE AliasMapOf(_, _, _)
AliasMapOf(map, infos, i) ==
    IF i > Len(infos) THEN map
    ELSE AliasMapOf(AliasMapAdd(AliasMapAdd(map, infos[i].full_name, i),
                                infos[i].short_name, i),
                    infos, i + 1)

\* parse_dump has returned the types of a dump and main calls generate_header.
InitEmit ==
    /\ pc = "resolve"
    /\ header_version = "29"
    /\ dump_exists = TRUE
    /\ dump = <<>>
    /\ dump_fixed = TRUE
    /\ type_infos \in EmitInputs
    /\ alias_map = AliasMapOf(AliasMapInit, type_infos, 1)
    /\ output_before = <<>>
    /\ conv_type = ""
    /\ san_name = ""
    /\ Fresh

NextEmit ==
    \/ ResolveFieldTypes
    \/ EmitNext
    \/ AssembleHeader
    \/ WriteOutput

\* generate_header and the write that follows it, on three types with bases
\* and fields among themselves.
SpecEmit == InitEmit /\ [][NextEmit]_vars

(***************************************************************************)
(* convert_type on bounded declared types and symbol tables                *)
(***************************************************************************)

\* The most markers a declared type carries after its base name.
MaxMarkers == 2

\* The array, pointer and nullable markers, and the white space between them.
Markers == {"[]", "*", "?", " "}

\* The strings of at most n markers.
RECURSIVE MarkerStrings(_)
MarkerStrings(n) ==
    IF n = 0 THEN {""}
    ELSE {""} \cup {marker \o rest : marker \in Markers, rest \in MarkerStrings(n - 1)}

\* The base names: primitives, names of the tables below, qualified and not,
\* a name no table holds, and no name at all.
BaseNames ==
    {"int", "Int32", "String", "IntPtr", "Foo", "N.Foo", "Bar", "Baz", "E", "F",
     "Unknown", ""}

DeclaredTypes == {base \o markers : base \in BaseNames, markers \in MarkerStrings(MaxMarkers)}

\* The types of three dumps: one where two namespaces declare a Foo, with
\* structs, classes and enums beside them; one where the short names String
\* and Foo are each declared twice; one with a struct and a struct whose
\* short name is a key of PRIMITIVE_MAP.
ConvertTables ==
    { << TypeInfo("N.Foo", "Foo", "class", NoneStr, NoneStr),
         TypeInfo("M.Foo", "Foo", "struct", NoneStr, NoneStr),
         TypeInfo("Bar", "Bar", "struct", NoneStr, NoneStr),
         TypeInfo("Baz", "Baz", "class", "Bar", NoneStr),
         TypeInfo("E", "E", "enum", NoneStr, NoneStr),
         TypeInfo("F", "F", "enum", NoneStr, "byte") >>,
      << TypeInfo("System.String", "String", "class", NoneStr, NoneStr),
         TypeInfo("N.String", "String", "class", NoneStr, NoneStr),
         TypeInfo("Foo", "Foo", "struct", NoneStr, NoneStr),
         TypeInfo("N.Foo", "Foo", "class", NoneStr, NoneStr),
         TypeInfo("Bar", "Bar", "struct", NoneStr, NoneStr) >>,
      << TypeInfo("S", "S", "struct", NoneStr, NoneStr),
         TypeInfo("N.Int32", "Int32", "struct", NoneStr, NoneStr) >> }

\* resolve_field_types is about to call convert_type on a declared type.
InitConvert ==
    /\ pc = "convert"
    /\ header_version = "29"
    /\ dump_exists = TRUE
    /\ dump = <<>>
    /\ dump_fixed = TRUE
    /\ type_infos \in ConvertTables
    /\ alias_map = AliasMapOf(AliasMapInit, type_infos, 1)
    /\ output_before = <<>>
    /\ conv_type \in DeclaredTypes
    /\ san_name = ""
    /\ Fresh

\* One call of convert_type, on any declared type and table of the bounds.
SpecConvert == InitConvert /\ [][Convert]_vars

(***************************************************************************)
(* main on the dump of namespace A { class Foo : Bar } and class Bar       *)
(***************************************************************************)

\* namespace A with class Foo : Bar and its annotated field, the braces at
\* the end of the opening lines or on lines of their own.
FooLines ==
    { <<"namespace A {", "\tclass Foo : Bar {", "\t\t[FieldOffset(0x10)]",
        "\t\tpublic int x;", "\t}", "}">>,
      <<"namespace A", "{", "class Foo : Bar", "{", "[FieldOffset(0x10)]",
        "public int x;", "}", "}">> }

\* class Bar with its annotated field, in the same two layouts.
BarLines ==
    { <<"class Bar {", "\t[FieldOffset(0x8)]", "\tpublic bool y;", "}">>,
      <<"class Bar", "{", "[FieldOffset(0x8)]", "public bool y;", "}">> }

\* The two declarations in either order.
FooBarDumps ==
    {foo \o bar : foo \in FooLines, bar \in BarLines}
    \cup {bar \o foo : foo \in FooLines, bar \in BarLines}

\* Before main runs on one of these dumps.
InitFooBar ==
    /\ pc = "parse_args"
    /\ header_version \in Versions
    /\ dump_exists \in BOOLEAN
    /\ dump \in FooBarDumps
    /\ dump_fixed = TRUE
    /\ type_infos = <<>>
    /\ alias_map = AliasMapInit
    /\ output_before \in OutputsBefore
    /\ conv_type = ""
    /\ san_name = ""
    /\ Fresh

\* One run of main on the Foo and Bar dumps.
SpecFooBar == InitFooBar /\ [][Next]_vars

(***************************************************************************)
(* parse_dump on dumps with openers without brace and malformed lines      *)
(***************************************************************************)

\* The longest dump parse_dump scans line by line.
MaxScanLines == 4

\* The lines of such a dump: openers with and without their brace, an enum
\* with an empty list of bases, the annotation, declarations that split and
\* one that does not, a blank line, attribute lines with and without a type
\* opener after the attribute, and braces on lines of their own.
ScanLines ==
    {"namespace N {", "class A {", "class A", "enum E : {", "[FieldOffset(0x0)]",
     "int x;", "static int y;", "x;", "", "[A] class B {", "[B]", "{", "}"}

ReadScanLine == ReadFrom(ScanLines, MaxScanLines)

\* main has called parse_dump, which is about to read the first line.
InitScan ==
    /\ pc = "scan"
    /\ header_version = "29"
    /\ dump_exists = TRUE
    /\ dump = <<>>
    /\ dump_fixed = FALSE
    /\ type_infos = ScanInit.type_infos
    /\ alias_map = ScanInit.alias_map
    /\ output_before = <<>>
    /\ conv_type = ""
    /\ san_name = ""
    /\ Fresh

NextScan ==
    \/ ReadScanLine
    \/ EndOfFile

\* parse_dump, and what main does when it returns, on any such dump.
SpecScan == InitScan /\ [][NextScan]_vars

(***************************************************************************)
(* AliasMap.add, called in any order                                       *)
(***************************************************************************)

\* The most calls of AliasMap.add made on one map.
MaxAdds == 4

\* The TypeInfo objects handed to AliasMap.add: 1..MaxInfos.
MaxInfos == 3

\* The aliases handed to it: a short name in two spellings that
\* normalise_type_name makes one, and a nested name.
AliasNames == {"Foo", "global::Foo", "N+Foo"}

\* alias_map.add(alias, info), on any alias and any TypeInfo.
AliasAdd ==
    /\ pc = "add"
    /\ Len(add_log) < MaxAdds
    /\ \E alias \in AliasNames, info \in 1..MaxInfos :
          /\ alias_map' = AliasMapAdd(alias_map, alias, info)
          /\ add_log' = Append(add_log, <<alias, info>>)
    /\ UNCHANGED <<pc, raised, run, dump, dump_fixed, line_no, type_infos, contexts,
                   brace_depth, pending_field, current_type, emit_vars, header_text,
                   output_file, first_output, file_vars, conv_vars, san_name,
                   san_result>>

\* An AliasMap has been made and nothing added to it.
InitAlias ==
    /\ pc = "add"
    /\ header_version = "29"
    /\ dump_exists = TRUE
    /\ dump = <<>>
    /\ dump_fixed = TRUE
    /\ type_infos = <<>>
    /\ alias_map = AliasMapInit
    /\ output_before = <<>>
    /\ conv_type = ""
    /\ san_name = ""
    /\ Fresh

\* Any MaxAdds calls of AliasMap.add on one map.
SpecAlias == InitAlias /\ [][AliasAdd]_vars

(***************************************************************************)
(* The two sanitizers on bounded names                                     *)
(***************************************************************************)

\* The longest name handed to the sanitizers.
MaxNameLen == 3

\* The characters of such a name: those sanitize_struct_name replaces, white
\* space, the verbatim marker, an underscore, a letter and a digit.
NameChars ==
    {":", "+", "/", " ", "\t", Backtick, "<", ">", ",", "[", "]", "-", ".", "@",
     "_", "a", "1"}

\* The names of at most n characters.
RECURSIVE NameStrings(_)
NameStrings(n) ==
    IF n = 0 THEN {""}
    ELSE {""} \cup {c \o rest : c \in NameChars, rest \in NameStrings(n - 1)}

\* What the sanitizers return for a name, struct_name and identifier, and what
\* they return when handed that.
SanitizedTwice(struct_name, identifier) ==
    [struct_name |-> struct_name, struct_again |-> sanitize_struct_name(struct_name),
     identifier |-> identifier, identifier_again |-> sanitize_identifier(identifier)]

\* sanitize_struct_name and sanitize_identifier are called on a name, and
\* once more on what they returned.
Sanitize ==
    /\ pc = "sanitize"
    /\ san_result' = SanitizedTwice(sanitize_struct_name(san_name),
                                    sanitize_identifier(san_name))
    /\ pc' = "sanitized"
    /\ UNCHANGED <<raised, run, dump, dump_fixed, line_no, scan_vars, emit_vars,
                   header_text, output_file, first_output, file_vars, conv_vars,
                   san_name, add_log>>

\* parse_dump is about to sanitize a name.
InitSanitize ==
    /\ pc = "sanitize"
    /\ header_version = "29"
    /\ dump_exists = TRUE
    /\ dump = <<>>
    /\ dump_fixed = TRUE
    /\ type_infos = <<>>
    /\ alias_map = AliasMapInit
    /\ output_before = <<>>
    /\ conv_type = ""
    /\ san_name \in NameStrings(MaxNameLen)
    /\ Fresh

\* The sanitizers on any name of the bounds.
SpecSanitize == InitSanitize /\ [][Sanitize]_vars

(***************************************************************************)
(* parse_dump on one declaration line of every shape                       *)
(***************************************************************************)

\* The declarations of the shape [modifiers] Type Name[;][= default][// comment]:
\* with and without modifiers, of a plain type and of types with white space
\* inside angle and square brackets, of a name that is an identifier, and
\* with and without the terminator, the default value and the comment.
Declarations ==
    [modifiers : {"", "public ", "private static readonly "},
     type : {"int", "Dictionary<int, List<string>>", "int[, ]"},
     name : {"x", "m_Value2"},
     terminator : BOOLEAN, default : BOOLEAN, comment : BOOLEAN]

\* The line of the dump that makes the declaration d.
DeclarationLine(d) ==
    d.modifiers \o d.type \o " " \o d.name
    \o (IF d.terminator THEN ";" ELSE "")
    \o (IF d.default THEN " = 0" ELSE "")
    \o (IF d.comment THEN " // 0x10" ELSE "")

\* The dumps of one class with one annotated declaration.
DeclarationDumps ==
    {<<"public class T", "{", "\t[FieldOffset(Offset = \"0x10\")]",
       "\t" \o DeclarationLine(d), "}">> : d \in Declarations}

\* main has called parse_dump on such a dump.
InitDeclare ==
    /\ pc = "scan"
    /\ header_version = "29"
    /\ dump_exists = TRUE
    /\ dump \in DeclarationDumps
    /\ dump_fixed = TRUE
    /\ type_infos = ScanInit.type_infos
    /\ alias_map = ScanInit.alias_map
    /\ output_before = <<>>
    /\ conv_type = ""
    /\ san_name = ""
    /\ Fresh

NextDeclare ==
    \/ ReadLine
    \/ EndOfFile

\* parse_dump on a class with one declaration of the documented shape.
SpecDeclare == InitDeclare /\ [][NextDeclare]_vars

(***************************************************************************)
(* Properties                                                              *)
(***************************************************************************)

\* The chunks that hold a structure group rendered for the type at position i.
GroupsOf(i) == {k \in DOMAIN order : order[k] = i /\ chunks[k] # ""}

\* a is b's resolved parent, or the type a field of b, instance or static,
\* depends on.
IsDependency(a, b) ==
    \/ ResolveParent(type_infos[b], alias_map) = a
    \/ \E k \in DOMAIN type_infos[b].fields : type_infos[b].fields[k].referenced = a
    \/ \E k \in DOMAIN type_infos[b].static_fields :
          type_infos[b].static_fields[k].referenced = a

\* generate_header has returned its text.
HeaderReturned == pc \in {"write", "done"}

\* C1: in what generate_header returns, whenever both A and B have a structure
\* group and A is B's resolved parent or a value-type field dependency of B,
\* A's group comes before B's group.
DependencyOrder ==
    HeaderReturned =>
        \A a, b \in DOMAIN type_infos :
            (a # b /\ IsDependency(a, b) /\ GroupsOf(a) # {} /\ GroupsOf(b) # {})
                => SetMin(GroupsOf(a)) < SetMin(GroupsOf(b))

\* The structure names of the discovered types.
StructNames == {type_infos[i].struct_name : i \in DOMAIN type_infos}

\* The chunks whose text declares the fields aggregate of structure name name.
GroupsNamed(name) ==
    {k \in DOMAIN chunks : StartsWith(chunks[k], "struct " \o name \o "_Fields")
                           /\ Contains(chunks[k], "struct " \o name \o "_o\n")}

\* C2: in what generate_header returns, no structure name has its structure
\* group rendered more than once.
AtMostOnce ==
    HeaderReturned => \A name \in StructNames : Cardinality(GroupsNamed(name)) <= 1

\* Two distinct discovered types share the short name name.
SharedShortName(name) ==
    \E i, j \in DOMAIN type_infos :
        i # j /\ type_infos[i].short_name = name /\ type_infos[j].short_name = name

\* C3, as stated: a declared type that is a short name two discovered types
\* share resolves to Il2CppObject*, with no dependency.
AmbiguousIsFallback ==
    (pc = "converted" /\ SharedShortName(conv_type))
        => conv_result = [c_type |-> "Il2CppObject*", referenced |-> 0]

\* C3, amended: a declared type that is a short name two discovered types
\* share resolves with no dependency, to what the primitive table holds for
\* the name when it is one of its keys and to Il2CppObject* otherwise.
AmbiguousShortName ==
    (pc = "converted" /\ SharedShortName(conv_type))
        => /\ conv_result.referenced = 0
           /\ conv_result.c_type = IF conv_type \in DOMAIN PRIMITIVE_MAP
                                   THEN PRIMITIVE_MAP[conv_type]
                                   ELSE "Il2CppObject*"

AmbiguousShortNameWitness ==
    /\ pc = "converted"
    /\ conv_type = "Foo"
    /\ SharedShortName("Foo")
    /\ \E i \in DOMAIN type_infos : type_infos[i].full_name = "N.Foo"
    /\ conv_result = [c_type |-> "Il2CppObject*", referenced |-> 0]

\* C4: whatever the declared type and the symbol table, convert_type returns a
\* native expression that is not empty.
ResolutionTotal == pc = "converted" => conv_result.c_type # ""

ResolutionTotalWitness ==
    /\ pc = "converted"
    /\ conv_type = "?*"
    /\ conv_result.c_type = "Il2CppObject*"

\* C5: the emit walk over the types never ends in the interpreter giving up
\* on the depth of the nested emit calls.
EmitWalkFinishes == ~(pc = "failed" /\ raised = "RecursionError")

\* C6: with a version outside 22, 24, 24.1, 24.2, 27 and 29 the run goes no
\* further than parse_args, ends there with SystemExit, and the output file
\* stays as it was.
UnsupportedVersionAborts ==
    header_version \notin {"22", "24", "24.1", "24.2", "27", "29"}
        => /\ pc \in {"parse_args", "failed"}
           /\ pc = "failed" => raised = "SystemExit"
           /\ type_infos = <<>>
           /\ output_file = output_before

UnsupportedVersionWitness ==
    /\ header_version = "23"
    /\ pc = "failed"
    /\ dump_exists
    /\ output_before = <<"stale">>
    /\ output_file = <<"stale">>

\* C7: a run whose dump file is missing, or whose scan found no type, ends
\* with SystemExit and leaves the output file as it was; the output file is
\* changed only by a run that found a type and whose header was generated.
NoOutputWithoutTypes ==
    /\ ~dump_exists => pc \in {"parse_args", "check_dump", "failed"}
    /\ (type_infos = <<>> /\ pc \notin {"parse_args", "check_dump", "scan"})
           => pc = "failed" /\ raised = "SystemExit"
    /\ pc = "failed" => output_file = output_before
    /\ output_file # output_before
           => pc = "done" /\ dump_exists /\ type_infos # <<>>
              /\ output_file = <<header_text>>

NoOutputWithoutTypesWitness ==
    /\ pc = "failed"
    /\ dump_exists
    /\ header_version \in HeaderVersions
    /\ dump = <<"[FieldOffset(0x0)]", "public B b;", "}">>
    /\ type_infos = <<>>
    /\ output_before = <<"stale">>
    /\ output_file = <<"stale">>

\* The text the run wrote.
Written == IF output_file = <<>> THEN "" ELSE output_file[1]

\* C8: when the run on a dump of namespace A { class Foo : Bar } and class
\* Bar, in either order, is done, the output holds Bar's group before Foo's,
\* Foo's fields aggregate inherits from Bar's, and x is an int32_t.
FooBarScenario ==
    pc = "done"
        => /\ Contains(Written, "struct Bar_Fields\n{\n\tbool y;\n};\n")
           /\ Contains(Written, "struct A_Foo_Fields : Bar_Fields\n{\n\tint32_t x;\n};\n")
           /\ Find(Written, "struct Bar_Fields\n") < Find(Written, "struct A_Foo_Fields")
           /\ Find(Written, "struct Bar_o\n") < Find(Written, "struct A_Foo_Fields")

FooBarScenarioWitness ==
    /\ pc = "done"
    /\ dump[1] = "namespace A"
    /\ dump[Len(dump)] = "}"
    /\ Contains(Written, "struct A_Foo_Fields : Bar_Fields\n{\n\tint32_t x;\n};\n")

\* The declared type ends with an array marker, pointer markers and white
\* space after it left aside.
TrailingArrayMarker(declared) ==
    EndsWith(RStrip(RStripChar(RStrip(declared), "*")), "[]")

\* C9: a declared type with a trailing array marker resolves to Il2CppArray*,
\* without pointer suffix, whatever its base name.
ArrayFallback ==
    (pc = "converted" /\ TrailingArrayMarker(conv_type))
        => conv_result.c_type = "Il2CppArray*"

ArrayFallbackWitness ==
    /\ pc = "converted"
    /\ conv_type = "Bar[]*"
    /\ \E i \in DOMAIN type_infos :
          type_infos[i].full_name = "Bar" /\ type_infos[i].kind = "struct"
    /\ conv_result.c_type = "Il2CppArray*"

\* C10: a second run of main on the same dump with the same version leaves
\* the output file as the first run left it.
Determinism ==
    (run = 2 /\ pc \in {"done", "failed"}) => output_file = first_output

DeterminismWitness ==
    /\ run = 2
    /\ pc = "done"
    /\ \E k \in DOMAIN chunks : chunks[k] # ""
    /\ first_output = <<header_text>>
    /\ output_file = first_output

\* C11: a name that a sanitizer returned is returned unchanged when the same
\* sanitizer is handed it: sanitize_struct_name and sanitize_identifier are
\* idempotent.
SanitizationIdempotent ==
    pc = "sanitized"
        => /\ san_result.struct_again = san_result.struct_name
           /\ san_result.identifier_again = san_result.identifier

SanitizationIdempotentWitness ==
    /\ pc = "sanitized"
    /\ san_name = "_:1"
    /\ san_result.struct_name = "1"
    /\ san_result.identifier = "_1"
    /\ san_result.identifier_again = "_1"

\* C12: whatever the lines of the dump, parse_dump returns: the only way the
\* scan ends a run is main finding no type in what it returned.
ScanNeverAborts == raised \in {"", "SystemExit"}

\* The name convert_type looks up for a declared type: the type without its
\* pointer, array and nullable markers.
LookedUpName(declared) ==
    Strip(Replace(DropNullable(StripArrays(StripPointers(Strip(declared), "").working,
                                           0).working), "?", ""))

\* The declared type is an array of a discovered struct.
ArrayOfStruct(declared) ==
    /\ TrailingArrayMarker(declared)
    /\ LookedUpName(declared) \notin DOMAIN PRIMITIVE_MAP
    /\ AliasMapResolve(alias_map, LookedUpName(declared)) # 0
    /\ type_infos[AliasMapResolve(alias_map, LookedUpName(declared))].kind = "struct"

\* C13: a declared type that is an array of a discovered struct resolves to
\* Il2CppArray* with no dependency.
ArrayDropsDependency ==
    (pc = "converted" /\ ArrayOfStruct(conv_type))
        => conv_result = [c_type |-> "Il2CppArray*", referenced |-> 0]

\* C15: after each line, no context marked entered is left on the stack with
\* a pop depth above the brace depth.
NoStaleContext ==
    pc = "scan"
        => \A i \in DOMAIN contexts :
              contexts[i].entered => contexts[i].pop_depth <= brace_depth

\* The full name of the type at position i is the full name of no other.
UniqueFullName(i) ==
    \A j \in DOMAIN type_infos : type_infos[j].full_name = type_infos[i].full_name => j = i

\* C20: once parse_dump has returned, alias_map resolves the full name of
\* every type whose full name is unique to that type.
QualifiedNamesResolve ==
    pc = "resolve"
        => \A i \in DOMAIN type_infos :
              UniqueFullName(i) => AliasMapResolve(alias_map, type_infos[i].full_name) = i

\* A step in which parse_dump has processed one more line and goes on.
LineScanned == pc = "scan" /\ pc' = "scan" /\ line_no' = line_no + 1

\* The context is the same frame as before, entered or not.
SameFrame(before, after) ==
    /\ after.kind = before.kind
    /\ after.name = before.name
    /\ after.pop_depth = before.pop_depth
    /\ after.type_info = before.type_info
    /\ before.entered => after.entered

\* The contexts of the stack that are gone after the step: those at its end.
Removed == {i \in DOMAIN contexts : i > Len(contexts')}

\* What a line does to the stack: the contexts that stay are the frames
\* they were, at most one is pushed, the ones removed are at the top, were
\* marked entered before the line and have a pop depth above the new brace
\* depth, and the context of a type discovered by the line is on the stack
\* after it.
PopsGuarded ==
    /\ Len(contexts') <= Len(contexts) + 1
    /\ \A i \in DOMAIN contexts \cap DOMAIN contexts' : SameFrame(contexts[i], contexts'[i])
    /\ \A i \in Removed : contexts[i].entered /\ brace_depth' < contexts[i].pop_depth
    /\ Len(type_infos') > Len(type_infos)
           => /\ Len(contexts') = Len(contexts) + 1
              /\ contexts'[Len(contexts')].type_info = Len(type_infos')

\* C14: contexts leave the stack from its top only, and only when they are
\* marked entered and the brace depth is below their pop depth; a context
\* not yet entered is never popped.
PopGuardLIFO == [][LineScanned => PopsGuarded]_vars

PopGuardLIFOWitness ==
    /\ pc = "scan"
    /\ dump = <<"namespace N {", "class A", "{", "}">>
    /\ line_no = 5
    /\ Len(contexts) = 1
    /\ contexts[1].kind = "namespace"
    /\ brace_depth = 1

\* The type at position i has a context on the stack.
OnStack(stack, i) == \E k \in DOMAIN stack : stack[k].kind = "type" /\ stack[k].type_info = i

\* The fields of a type, instance and static.
FieldCount(info) == Len(info.fields) + Len(info.static_fields)

\* The type of the last type context of the stack that is marked entered, 0
\* when there is none.
NearestOpenType(stack) ==
    LET open == {k \in DOMAIN stack : stack[k].kind = "type" /\ stack[k].entered}
    IN  IF open = {} THEN 0 ELSE stack[SetMax(open)].type_info

\* What a line does to the fields: the types it finds are unchanged but for
\* the current type, while its context is on the stack; a type whose context
\* has left the stack gets no context again; and when a type context is
\* removed, the current type becomes the type of the nearest type context
\* left that is entered, or none.
FieldsToOpenType ==
    /\ \A i \in DOMAIN type_infos :
          type_infos'[i] # type_infos[i]
              => /\ i = current_type
                 /\ OnStack(contexts, i)
                 /\ OnStack(contexts', i)
                 /\ FieldCount(type_infos'[i]) = FieldCount(type_infos[i]) + 1
    /\ \A i \in DOMAIN type_infos : ~OnStack(contexts, i) => ~OnStack(contexts', i)
    /\ (\E k \in Removed : contexts[k].kind = "type")
           => current_type' = NearestOpenType(contexts')

\* C16: a line appends a field to the current type only, whose context is on
\* the stack; a type whose context was popped gets no field from a later
\* line; popping a type context makes the nearest enclosing type still open,
\* or none, the current type.
FieldsOnlyToOpenType == [][LineScanned => FieldsToOpenType]_vars

FieldsOnlyToOpenTypeWitness ==
    /\ pc = "scan"
    /\ dump = <<"class A {", "[FieldOffset(0x0)]", "static int y;", "}">>
    /\ line_no = 5
    /\ Len(type_infos[1].static_fields) = 1
    /\ contexts = <<>>
    /\ current_type = 0

\* The line the step has processed, as parse_dump strips it.
StrippedLine == Strip(RStrip(dump'[line_no]))

\* All the fields the scan has made.
RECURSIVE FieldsMade(_)
FieldsMade(infos) ==
    IF infos = <<>> THEN 0 ELSE FieldCount(Head(infos)) + FieldsMade(Tail(infos))

\* The line takes the branch that tries to split a declaration.
DeclarationTried(stripped) ==
    /\ ~NAMESPACE_RE(stripped).ok
    /\ ~TYPE_RE(stripped).ok
    /\ ~FIELD_OFFSET_RE(stripped)
    /\ pending_field
    /\ current_type # 0
    /\ stripped # ""
    /\ ~StartsWith(stripped, "[")

\* A field is made only by a line read with the flag set, which is not the
\* annotation line and leaves the flag clear, one field at most; the flag is
\* set by annotation lines only; a declaration tried leaves the flag clear.
FieldsFollowAnnotations(stripped) ==
    /\ FieldsMade(type_infos') # FieldsMade(type_infos)
           => /\ pending_field
              /\ ~FIELD_OFFSET_RE(stripped)
              /\ FieldsMade(type_infos') = FieldsMade(type_infos) + 1
              /\ ~pending_field'
    /\ (~pending_field /\ pending_field') => FIELD_OFFSET_RE(stripped)
    /\ FIELD_OFFSET_RE(stripped) => FieldsMade(type_infos') = FieldsMade(type_infos)
    /\ DeclarationTried(stripped) => ~pending_field'

\* A blank line, or a line that starts with a bracket, leaves the flag set.
BracketKeepsFlag(stripped) ==
    (pending_field /\ (stripped = "" \/ StartsWith(stripped, "[")))
        => pending_field'

\* A blank line, or a line that starts with a bracket and is no type opener,
\* leaves the flag set.
AttributeKeepsFlag(stripped) ==
    (pending_field /\ (stripped = "" \/ StartsWith(stripped, "["))
                   /\ ~TYPE_RE(stripped).ok)
        => pending_field'

\* C17, as stated: fields come from the line after an annotation only, one
\* per annotation at most, never from the annotation line; blank lines and
\* lines that start with a bracket leave the flag set; a declaration tried
\* leaves it clear.
PendingProtocolAsStated ==
    [][LineScanned => \A stripped \in {StrippedLine} :
                          /\ FieldsFollowAnnotations(stripped)
                          /\ BracketKeepsFlag(stripped)]_vars

\* C17, amended: as above, where the lines that start with a bracket and
\* leave the flag set are those that open no type.
PendingProtocol ==
    [][LineScanned => \A stripped \in {StrippedLine} :
                          /\ FieldsFollowAnnotations(stripped)
                          /\ AttributeKeepsFlag(stripped)]_vars

PendingProtocolWitness ==
    /\ pc = "scan"
    /\ dump = <<"class A {", "[FieldOffset(0x0)]", "[B]", "int x;">>
    /\ line_no = 5
    /\ ~pending_field
    /\ Len(type_infos[1].fields) = 1

\* The names of the namespace contexts of the stack, bottom to top.
OpenNamespaces(stack) ==
    LET IsNamespace(c) == c.kind = "namespace"
        open == SelectSeq(stack, IsNamespace)
    IN  [k \in DOMAIN open |-> open[k].name]

\* The short names of the types of the type contexts of the stack, bottom to
\* top.
OpenTypes(stack, infos) ==
    LET IsType(c) == c.kind = "type"
        open == SelectSeq(stack, IsType)
    IN  [k \in DOMAIN open |-> infos[open[k].type_info].short_name]

\* The type the line has discovered is appended to the list, which is
\* otherwise as it was; its full name is the names of the namespaces on the
\* stack, the short names of the types on the stack and its short name,
\* joined by dots; and it is pushed as a type context.
QualifiedAndPushed(new) ==
    /\ Len(type_infos') = Len(type_infos) + 1
    /\ SubSeq(type_infos', 1, Len(type_infos)) = type_infos
    /\ new.full_name = Join(OpenNamespaces(contexts) \o OpenTypes(contexts, type_infos)
                                \o <<new.short_name>>, ".")
    /\ contexts = <<>> => new.full_name = new.short_name
    /\ Len(contexts') = Len(contexts) + 1
    /\ contexts'[Len(contexts')].kind = "type"
    /\ contexts'[Len(contexts')].name = new.short_name
    /\ contexts'[Len(contexts')].type_info = Len(type_infos')

\* C18: the full name of a type a line discovers is the dot-join of the
\* names of the namespace contexts on the stack, the short names of the type
\* contexts on the stack and its short name; the type is appended to the
\* discovered types and pushed as a type context.
QualifiedNameConstruction ==
    [][(LineScanned /\ Len(type_infos') # Len(type_infos))
           => QualifiedAndPushed(type_infos'[Len(type_infos')])]_vars

QualifiedNameConstructionWitness ==
    /\ pc = "scan"
    /\ dump = <<"class A {", "namespace N {", "[A] class B {">>
    /\ Len(type_infos) = 2
    /\ type_infos[2].full_name = "N.A.B"
    /\ type_infos[2].short_name = "B"
    /\ Len(contexts) = 3

\* The types that claimed the key, in the order of their calls of add.
RECURSIVE Claimants(_, _)
Claimants(log, key) ==
    IF log = <<>> THEN <<>>
    ELSE (IF normalise_type_name(Head(log)[1]) = key THEN <<Head(log)[2]>> ELSE <<>>)
         \o Claimants(Tail(log), key)

\* What the map holds for a key claimed by the types of claimants: the first
\* of them while no other has claimed it, and the mark of ambiguity (0 for
\* None) from the first claim of another on.
BindingOf(claimants) ==
    IF \A k \in DOMAIN claimants : claimants[k] = claimants[1] THEN claimants[1] ELSE 0

\* C19: after any calls of add, a key is in the map when it was claimed, bound
\* to its first claimant while no distinct type has claimed it and ambiguous
\* ever after: no binding is replaced by another type, a repeated add
\* changes nothing, and an ambiguous key is never bound again.
AliasDemotion ==
    pc = "add"
        => /\ DOMAIN alias_map = {normalise_type_name(add_log[k][1]) : k \in DOMAIN add_log}
           /\ \A key \in DOMAIN alias_map :
                 alias_map[key] = BindingOf(Claimants(add_log, key))

AliasDemotionWitness ==
    /\ pc = "add"
    /\ add_log = << <<"Foo", 1>>, <<"global::Foo", 1>>, <<"Foo", 2>>, <<"global::Foo", 1>> >>
    /\ alias_map = ("Foo" :> 0)

\* The pointer markers convert_type takes off the declared type.
PointerSuffix(declared) == StripPointers(Strip(declared), "").pointer_suffix

\* The array markers it takes off after them.
ArrayCount(declared) ==
    StripArrays(StripPointers(Strip(declared), "").working, 0).array_count

\* The type alias_map resolves the looked-up name of the declared type to (0
\* for None).
ResolvedType(declared) == AliasMapResolve(alias_map, LookedUpName(declared))

\* The primitive an enum stands for: what PRIMITIVE_MAP holds for its
\* underlying type, int32_t when it holds nothing.
UnderlyingPrimitive(info) ==
    IF info.enum_base \in DOMAIN PRIMITIVE_MAP THEN PRIMITIVE_MAP[info.enum_base]
    ELSE "int32_t"

\* What the claim C21 takes convert_type to return for a declared type that
\* resolves to info, at position index, with the pointer markers suffix;
\* enum_dependency is whether an enum is returned as dependency.
ResolvedAs(info, index, suffix, enum_dependency) ==
    IF info.kind = "struct"
    THEN [c_type |-> info.struct_name \o "_o" \o suffix, referenced |-> index]
    ELSE IF info.kind = "class"
    THEN [c_type |-> info.struct_name \o "_o*" \o suffix, referenced |-> 0]
    ELSE [c_type |-> UnderlyingPrimitive(info) \o suffix,
          referenced |-> IF enum_dependency THEN index ELSE 0]

Enums == {i \in DOMAIN type_infos : is_enum(type_infos[i])}

\* The structure names that only enums have.
EnumOnlyNames ==
    {type_infos[i].struct_name : i \in Enums}
    \ {type_infos[i].struct_name : i \in DOMAIN type_infos \ Enums}

\* C22: emit never renders an enum, reached from the loop over the types, as
\* a parent or as the dependency of a field: no chunk is rendered for an
\* enum, every name of the emitted set was added for a type that is no enum,
\* and a structure name that only enums have is not in the emitted set and
\* has no structure group.
EnumsNeverEmitted ==
    /\ \A k \in DOMAIN order : order[k] \notin Enums
    /\ emitted = {type_infos[order[k]].struct_name : k \in DOMAIN order}
    /\ \A name \in EnumOnlyNames : name \notin emitted /\ GroupsNamed(name) = {}

\* The header is returned for types where an enum is both the resolved parent
\* of a rendered class and the dependency of a rendered struct's field.
EnumsNeverEmittedWitness ==
    /\ HeaderReturned
    /\ \E e \in Enums, a, b \in DOMAIN type_infos :
          /\ a # b
          /\ type_infos[e].struct_name \in EnumOnlyNames
          /\ ResolveParent(type_infos[a], alias_map) = e
          /\ type_infos[b].fields # <<>>
          /\ type_infos[b].fields[1].referenced = e
          /\ GroupsOf(a) # {}
          /\ GroupsOf(b) # {}

\* The discovered types that are no enum and have no field at all.
EmptyTypes ==
    {i \in DOMAIN type_infos \ Enums :
        type_infos[i].fields = <<>> /\ type_infos[i].static_fields = <<>>}

\* The types emit(b) calls emit for before it renders b, enums aside.
DependenciesOf(b) == {a \in DOMAIN type_infos \ Enums : IsDependency(a, b)}

\* The loop of generate_header has called emit for the type at position i,
\* and the call has returned.
Walked(i) == pc \in {"emit", "write", "done"} /\ i < next_emit

\* C23: a type that is no enum and has no field at all gets the empty text
\* as its chunk, once at most and after a chunk for the structure name of
\* each of its dependencies, and once emit has returned for it its structure
\* name is in the emitted set.
EmptyTypesMarked ==
    /\ \A k \in DOMAIN order :
          order[k] \in EmptyTypes
              => /\ chunks[k] = ""
                 /\ type_infos[order[k]].struct_name \in emitted
                 /\ \A j \in DOMAIN order : order[j] = order[k] => j = k
                 /\ \A a \in DependenciesOf(order[k]) :
                       \E j \in 1..(k - 1) :
                           type_infos[order[j]].struct_name = type_infos[a].struct_name
    /\ \A i \in EmptyTypes : Walked(i) => type_infos[i].struct_name \in emitted

\* The header is returned for types where a type without fields has a
\* rendered parent and is itself the parent of a type rendered after it.
EmptyTypesMarkedWitness ==
    /\ HeaderReturned
    /\ \E k \in DOMAIN order, j \in DOMAIN order :
          /\ order[k] \in EmptyTypes
          /\ chunks[k] = ""
          /\ DependenciesOf(order[k]) # {}
          /\ k < j
          /\ order[k] \in DependenciesOf(order[j])
          /\ chunks[j] # ""

\* The structure names whose _o aggregate the fields of the type at position b
\* embed: those of the structs its fields, instance and static, depend on.
AggregatesNamed(b) ==
    {type_infos[f.referenced].struct_name :
        f \in {g \in {type_infos[b].fields[n] : n \in DOMAIN type_infos[b].fields}
                      \cup {type_infos[b].static_fields[n] :
                               n \in DOMAIN type_infos[b].static_fields} :
                  /\ g.referenced # 0
                  /\ type_infos[g.referenced].kind = "struct"
                  /\ g.c_type = type_infos[g.referenced].struct_name \o "_o"}}

\* A structure group of structure name name is in a chunk before chunk k.
DeclaredBefore(name, k) == \E j \in GroupsNamed(name) : j < k

\* C24: in what generate_header returns, the _Fields aggregate a structure
\* group names as the base of its fields aggregate, and the _o aggregate of
\* each struct one of its fields embeds, is declared by a structure group
\* earlier in the output.
NoDanglingReferences ==
    HeaderReturned =>
        \A k \in DOMAIN order :
            chunks[k] # ""
                => /\ \A parent_decl \in {ParentDecl(type_infos[order[k]],
                                                    ResolveParent(type_infos[order[k]],
                                                                  alias_map),
                                                    type_infos)} :
                         parent_decl # NoneStr => DeclaredBefore(parent_decl, k)
                   /\ \A name \in AggregatesNamed(order[k]) : DeclaredBefore(name, k)

\* C25: when the run is done and the output holds a type-descriptor aggregate,
\* the preamble of the selected version declares the descriptor head and the
\* descriptor tail the aggregate embeds.
VersionSpecificDescriptor ==
    (pc = "done" /\ Contains(Written, "\tIl2CppClass_1 _1;\n")
                /\ Contains(Written, "\tIl2CppClass_2 _2;\n"))
        => /\ Contains(HEADER_VARIANTS[header_version], "struct Il2CppClass_1;\n")
           /\ Contains(HEADER_VARIANTS[header_version], "struct Il2CppClass_2;\n")

\* The fields parse_dump has recorded for the type at position i, instance
\* fields first.
RecordedFields(i) == type_infos[i].fields \o type_infos[i].static_fields

\* parse_dump has read the declaration d of the dump and recorded one field
\* for it.
DeclarationRead(d) ==
    /\ pc = "scan"
    /\ Len(dump) = 5
    /\ line_no > 4
    /\ dump[4] = "\t" \o DeclarationLine(d)
    /\ Len(type_infos) = 1
    /\ Len(RecordedFields(1)) = 1

\* C26: once parse_dump has read a declaration of the documented shape whose
\* name is an identifier, the field it recorded has that name, whatever the
\* terminator, default value and comment, and its declared type is the whole
\* type of the declaration, white space inside brackets included.
FieldNameExtraction ==
    \A d \in Declarations :
        (pc = "scan" /\ Len(dump) = 5 /\ line_no > 4
            /\ dump[4] = "\t" \o DeclarationLine(d))
            => /\ DeclarationRead(d)
               /\ RecordedFields(1)[1].name = d.name
               /\ RecordedFields(1)[1].original_type = d.type

\* The characters sanitize_struct_name folds.
FoldedCharacters == {".", "+", "/", Backtick, "<", ">", ",", " ", "[", "]", "-", ":"}

\* C27: the structure name sanitize_struct_name makes of a name has no
\* leading underscore, no run of two or more underscores and none of the
\* folded characters.
StructNameShape ==
    pc = "sanitized"
        => /\ ~StartsWith(san_result.struct_name, "_")
           /\ ~Contains(san_result.struct_name, "__")
           /\ \A c \in FoldedCharacters : ~Contains(san_result.struct_name, c)

\* A nested type of the global namespace: both separators fold into one
\* underscore, which is dropped from the front.
StructNameShapeWitness ==
    /\ pc = "sanitized"
    /\ san_name = ".+a"
    /\ san_result.struct_name = "a"

====
